---- MODULE Spec2Model ----
(***************************************************************************)
(* The proof-composition core of PyR0: the Composer (src/src/composer.rs), *)
(* the InputBuilder it delegates to (src/src/input_builder.rs) and the     *)
(* Receipt surface it consumes (src/src/receipt.rs).                       *)
(*                                                                         *)
(* Byte strings are sequences of numbers 0..255.  A 32-byte digest is the  *)
(* sequence of its bytes.  Option<T> is a sequence of length 0 or 1.       *)
(***************************************************************************)
EXTENDS Integers, Sequences, FiniteSets, TLC

VARIABLES
    image,                   \* Composer.image
    assumptions,             \* Composer.assumptions: Vec<Receipt>
    assumption_digests,      \* Composer.assumption_digests: HashSet<(Digest, Digest)>
    input_builder,           \* Composer.input_builder, a record [data |-> bytes]
    expected_verifications,  \* Composer.expected_verifications: Vec<(Vec<u8>, Vec<u8>)>
    ret,                     \* what the last call returned to its caller
    accepted,                \* history: the receipts assume has returned Ok for, in call order
    nwrites,                 \* history: the number of write_* calls that returned Ok
    proved,                  \* history: some prove call has returned a Receipt
    receipt,                 \* the Receipt object the Receipt methods are called on
    builder,                 \* the standalone InputBuilder object
    written                  \* history: the calls of the standalone InputBuilder that
                             \* returned Ok and changed it, with their arguments, in order

cstate == <<image, assumptions, assumption_digests, input_builder, expected_verifications>>
history == <<accepted, nwrites, proved>>
vars == <<image, assumptions, assumption_digests, input_builder, expected_verifications,
          ret, accepted, nwrites, proved, receipt, builder, written>>

(***************************************************************************)
(* Bounds of the model.                                                    *)
(***************************************************************************)
\* successful state-extending Composer calls (assume, expect_verification, write_*) in one run
MaxOps == 3

(***************************************************************************)
(* Values.                                                                 *)
(***************************************************************************)
\* u32::MAX.  TLC's integers end at 2^31 - 1: the model's u32 values are 0 .. 2^31 - 1
\* and this is the largest of them.  No arithmetic of the code can overflow.
U32_MAX == 2147483647

None == <<>>
Some(x) == <<x>>

Bytes32(b) == [i \in 1..32 |-> b]

\* two program identities, and byte strings that are no identity
ID_A == Bytes32(170)
ID_B == Bytes32(187)
ID_SHORT == [i \in 1..31 |-> 170]
ID_LONG == [i \in 1..33 |-> 170]
ImageIds == {ID_A, ID_B}

\* journals: the u32 7 and the u32 8 as the inner guest commits them, and the empty journal
J7 == <<7, 0, 0, 0>>
J8 == <<8, 0, 0, 0>>
Journals == {J7, J8}

\* risc0_zkvm::sha::Impl::hash_bytes: an ideal hash, the digest is determined by the
\* bytes hashed and (collision resistance) determines them
Sha256(bytes) == [sha256 |-> bytes]

\* risc0_zkvm::ExitCode
Halted(code) == [tag |-> "Halted", code |-> Some(code)]
Paused(code) == [tag |-> "Paused", code |-> Some(code)]
SystemSplit == [tag |-> "SystemSplit", code |-> None]
SessionLimit == [tag |-> "SessionLimit", code |-> None]
ExitCodes == {Halted(0), Halted(1), Halted(U32_MAX), Paused(0), Paused(1),
              SystemSplit, SessionLimit}

\* risc0_zkvm::InnerReceipt is non-exhaustive: "Future" is a variant the code does not name
InnerVariants == {"Composite", "Succinct", "Groth16", "Fake", "Future"}

\* what receipt.inner.claim() and then as_value() give: the claim's value, a pruned
\* claim (digest only), or an error
ClaimStates == {"value", "pruned", "error"}

\* A risc0_zkvm::Receipt as far as this code reads it.
\*   inner    the InnerReceipt variant
\*   claim    the state of the claim
\*   pre      digest of the claim's pre-state, the claimed image id
\*   exit     the claim's exit code
\*   journal  journal.bytes
\*   seal_ok  whether the seal proves the claim
\*   nassum   composite.assumption_receipts.len()
Rcpt(inner, claim, pre, exit, journal, seal_ok, nassum) ==
    [inner |-> inner, claim |-> claim, pre |-> pre, exit |-> exit,
     journal |-> journal, seal_ok |-> seal_ok, nassum |-> nassum]

\* Every receipt of the model.  A seal proves a claim only if there is a claim to
\* decode; only a composite receipt carries assumption receipts.
AllReceipts ==
    { r \in { Rcpt(i, c, p, e, j, s, n) :
                i \in InnerVariants, c \in ClaimStates, p \in ImageIds, e \in ExitCodes,
                j \in Journals, s \in BOOLEAN, n \in {0, 1} } :
        /\ r.claim = "error" => ~r.seal_ok
        /\ r.nassum > 0 => r.inner = "Composite" }

\* The receipts handed to the Composer.
R_A7 == Rcpt("Succinct", "value", ID_A, Halted(0), J7, TRUE, 0)
R_A7g == Rcpt("Groth16", "value", ID_A, Halted(0), J7, TRUE, 0)   \* R_A7's claim, another proof
R_A8 == Rcpt("Succinct", "value", ID_A, Halted(0), J8, TRUE, 0)
R_Composite == Rcpt("Composite", "value", ID_A, Halted(0), J7, TRUE, 1)
R_Future == Rcpt("Future", "value", ID_A, Halted(0), J7, TRUE, 0)
R_Fake == Rcpt("Fake", "value", ID_A, Halted(0), J7, FALSE, 0)
R_Halted1 == Rcpt("Succinct", "value", ID_A, Halted(1), J7, TRUE, 0)
R_Paused0 == Rcpt("Groth16", "value", ID_A, Paused(0), J7, TRUE, 0)
R_Split == Rcpt("Succinct", "value", ID_A, SystemSplit, J7, TRUE, 0)
R_Limit == Rcpt("Succinct", "value", ID_A, SessionLimit, J7, TRUE, 0)
R_Pruned == Rcpt("Succinct", "pruned", ID_A, Halted(0), J7, TRUE, 0)
R_NoClaim == Rcpt("Succinct", "error", ID_A, Halted(0), J7, FALSE, 0)

Receipts == {R_A7, R_A7g, R_A8, R_Composite, R_Future, R_Fake, R_Halted1,
             R_Paused0, R_Split, R_Limit, R_Pruned, R_NoClaim}

(***************************************************************************)
(* Results.  A PyResult is a record [err, val]: err = "ok" with the value, *)
(* or the error raised.                                                    *)
(***************************************************************************)
Ok(v) == [err |-> "ok", val |-> v]
Err(e) == [err |-> e, val |-> None]
IsOk(res) == res.err = "ok"

(***************************************************************************)
(* Receipt (src/src/receipt.rs)                                            *)
(***************************************************************************)
\* (mutant) ExitStatus::ok that looks at the user code alone
ExitStatus_ok_any_kind(status) ==
    status.user_code = Some(0)

\* (mutant) ExitStatus::ok that looks at the kind alone
ExitStatus_ok_any_code(status) ==
    status.kind = "Halted"

\* ExitStatus::ok
ExitStatus_ok(status) ==
    status.kind = "Halted" /\ status.user_code = Some(0)

\* Receipt::kind
kind(r) ==
    CASE r.inner = "Composite" -> "Composite"
      [] r.inner = "Succinct" -> "Succinct"
      [] r.inner = "Groth16" -> "Groth16"
      [] r.inner = "Fake" -> "Fake"
      [] OTHER -> "Composite"

\* (mutant) is_unconditional that takes a variant it does not know for a final proof
is_unconditional_by_default(r) ==
    CASE r.inner = "Composite" -> FALSE
      [] OTHER -> TRUE

\* Receipt::is_unconditional
is_unconditional(r) ==
    CASE r.inner = "Composite" -> FALSE
      [] r.inner = "Succinct" -> TRUE
      [] r.inner = "Groth16" -> TRUE
      [] r.inner = "Fake" -> TRUE
      [] OTHER -> FALSE

\* self.inner.claim() followed by as_value(), as every reader of the claim does it
claim_value(r) ==
    CASE r.claim = "error" -> Err("ClaimDecodeError")
      [] r.claim = "pruned" -> Err("ClaimPruned")
      [] OTHER -> Ok([pre |-> r.pre, exit_code |-> r.exit])

\* Receipt::exit
exit(r) ==
    LET c == claim_value(r) IN
    IF ~IsOk(c) THEN Err(c.err)
    ELSE LET e == c.val.exit_code IN
         CASE e.tag = "Halted" -> Ok([kind |-> "Halted", user_code |-> e.code])
           [] e.tag = "Paused" -> Ok([kind |-> "Paused", user_code |-> e.code])
           [] e.tag = "SystemSplit" -> Ok([kind |-> "SystemSplit", user_code |-> None])
           [] e.tag = "SessionLimit" -> Ok([kind |-> "SessionLimit", user_code |-> None])

\* ---- claims ----

\* Claim::new
Claim_new(image_id, journal, exit_code) ==
    IF Len(image_id) # 32 THEN Err("InvalidLength")
    ELSE Ok([image_id |-> image_id, journal |-> journal,
             journal_digest |-> Sha256(journal), exit_code |-> exit_code])

\* (mutant) a claim whose digest is taken over the image id
from_risc0_claim_digest_of_id(claim, journal_bytes) ==
    Ok([image_id |-> claim.pre,
        journal |-> journal_bytes,
        journal_digest |-> Sha256(claim.pre),
        exit_code |-> IF claim.exit_code.tag \in {"Halted", "Paused"}
                      THEN claim.exit_code.code[1] ELSE U32_MAX])

\* Claim::from_risc0_claim
from_risc0_claim(claim, journal_bytes) ==
    Ok([image_id |-> claim.pre,
        journal |-> journal_bytes,
        journal_digest |-> Sha256(journal_bytes),
        exit_code |-> IF claim.exit_code.tag \in {"Halted", "Paused"}
                      THEN claim.exit_code.code[1] ELSE U32_MAX])

\* Claim::is_success
Claim_is_success(c) == c.exit_code = 0

\* Receipt::claim
Receipt_claim(r) ==
    IF ~IsOk(claim_value(r)) THEN Err(claim_value(r).err)
    ELSE from_risc0_claim(claim_value(r).val, r.journal)

\* ---- verification ----

\* risc0_zkvm::Receipt::verify(image_id), the backend's verification, by its contract as
\* the call site states it: "Full verification: checks seal, image ID match, and
\* success exit".  The image id is the digest of the claim's pre-state; the successful
\* exit is ExitCode::Halted(0).  It reads the claim's digest, so it needs no claim value.
inner_verify(r, image_id) ==
    /\ r.claim # "error"
    /\ r.seal_ok
    /\ r.pre = image_id
    /\ r.exit = Halted(0)

\* the characters of the strings verify_hex is given
HexChars == {"0", "1", "2", "3", "4", "5", "6", "7", "8", "9",
             "a", "b", "c", "d", "e", "f", "A", "B", "C", "D", "E", "F"}

\* the value of a hex digit (hex::decode reads both cases)
hex_val(c) ==
    CASE c = "0" -> 0 [] c = "1" -> 1 [] c = "2" -> 2 [] c = "3" -> 3 [] c = "4" -> 4
      [] c = "5" -> 5 [] c = "6" -> 6 [] c = "7" -> 7 [] c = "8" -> 8 [] c = "9" -> 9
      [] c \in {"a", "A"} -> 10 [] c \in {"b", "B"} -> 11 [] c \in {"c", "C"} -> 12
      [] c \in {"d", "D"} -> 13 [] c \in {"e", "E"} -> 14 [] c \in {"f", "F"} -> 15

\* hex::decode: a string (a sequence of characters) to bytes
hex_decode(str) ==
    IF Len(str) % 2 # 0 THEN Err("InvalidHex")
    ELSE IF \E i \in 1..Len(str) : str[i] \notin HexChars THEN Err("InvalidHex")
    ELSE Ok([i \in 1..(Len(str) \div 2) |->
                16 * hex_val(str[2 * i - 1]) + hex_val(str[2 * i])])

\* hex::encode: bytes to a lower-case hex string
hex_digit(n) ==
    CASE n = 0 -> "0" [] n = 1 -> "1" [] n = 2 -> "2" [] n = 3 -> "3" [] n = 4 -> "4"
      [] n = 5 -> "5" [] n = 6 -> "6" [] n = 7 -> "7" [] n = 8 -> "8" [] n = 9 -> "9"
      [] n = 10 -> "a" [] n = 11 -> "b" [] n = 12 -> "c" [] n = 13 -> "d"
      [] n = 14 -> "e" [] n = 15 -> "f"

hex_encode(bytes) ==
    [i \in 1..(2 * Len(bytes)) |->
        IF i % 2 = 1 THEN hex_digit(bytes[(i + 1) \div 2] \div 16)
        ELSE hex_digit(bytes[i \div 2] % 16)]

\* str::starts_with
starts_with(str, prefix) ==
    Len(str) >= Len(prefix) /\ SubSeq(str, 1, Len(prefix)) = prefix

\* (mutant) verify_hex that knows the prefix in lower case only
verify_hex_lower_prefix_only(r, image_id_hex) ==
    LET hex_str == IF starts_with(image_id_hex, <<"0", "x">>)
                   THEN SubSeq(image_id_hex, 3, Len(image_id_hex))
                   ELSE image_id_hex
        bytes == hex_decode(hex_str)
    IN  IF ~IsOk(bytes) THEN "InvalidHex"
        ELSE IF Len(bytes.val) # 32 THEN "InvalidLength"
        ELSE IF inner_verify(r, bytes.val) THEN "ok"
        ELSE "VerificationError"

\* Receipt::verify_hex: "ok" or the error raised
verify_hex(r, image_id_hex) ==
    LET hex_str == IF starts_with(image_id_hex, <<"0", "x">>)
                      \/ starts_with(image_id_hex, <<"0", "X">>)
                   THEN SubSeq(image_id_hex, 3, Len(image_id_hex))
                   ELSE image_id_hex
        bytes == hex_decode(hex_str)
    IN  IF ~IsOk(bytes) THEN "InvalidHex"
        ELSE IF Len(bytes.val) # 32 THEN "InvalidLength"
        ELSE IF inner_verify(r, bytes.val) THEN "ok"
        ELSE "VerificationError"

\* (mutant) verify_bytes that verifies against the id the receipt itself claims
verify_bytes_claimed(r, image_id) ==
    IF Len(image_id) # 32 THEN "InvalidLength"
    ELSE IF inner_verify(r, r.pre) THEN "ok"
    ELSE "VerificationError"

\* Receipt::verify_bytes: "ok" or the error raised
verify_bytes(r, image_id) ==
    IF Len(image_id) # 32 THEN "InvalidLength"
    ELSE IF inner_verify(r, image_id) THEN "ok"
    ELSE "VerificationError"

\* Receipt::verify_integrity: "ok" or the error raised
\* (mutant) integrity checked by the backend's full verification against the receipt's
\* own image id, which enforces the successful exit as well
verify_integrity_by_full_verify(r) ==
    IF inner_verify(r, r.pre) THEN "ok" ELSE "IntegrityError"

verify_integrity(r) ==
    IF IsOk(claim_value(r)) THEN "ok" ELSE "IntegrityError"

\* Receipt::verify_integrity_with_context: the context is a placeholder
verify_integrity_with_context(r) == verify_integrity(r)

\* Image::id: the id of an Image object, whose image_id is an Option<Digest>
Image_id(img) ==
    IF img.image_id = None THEN Err("AttributeError") ELSE Ok(img.image_id[1])

\* A Python object passed as an argument: its type and, by type, its bytes, its
\* characters, its truth value or (an Image) its image_id field.
PyObj(type, bytes, str, flag, image_id) ==
    [type |-> type, bytes |-> bytes, str |-> str, flag |-> flag, image_id |-> image_id]
PyBytes(bytes) == PyObj("bytes", bytes, <<>>, FALSE, None)
PyStr(str) == PyObj("str", <<>>, str, FALSE, None)
PyBool(flag) == PyObj("bool", <<>>, <<>>, flag, None)
PyImage(image_id) == PyObj("Image", <<>>, <<>>, FALSE, image_id)
PyInt == PyObj("int", <<>>, <<>>, FALSE, None)

\* Receipt::verify: "ok" or the error raised
verify(r, image_id) ==
    CASE image_id.type = "Image" ->
            IF IsOk(Image_id(image_id)) THEN verify_bytes(r, Image_id(image_id).val)
            ELSE Image_id(image_id).err
      [] image_id.type = "str" -> verify_hex(r, image_id.str)
      [] image_id.type = "bytes" -> verify_bytes(r, image_id.bytes)
      [] OTHER -> "InvalidArgument"

(***************************************************************************)
(* InputBuilder (src/src/input_builder.rs): the internal methods the       *)
(* Composer calls, as functions of the builder's data.                     *)
(***************************************************************************)
\* (mutant) the n bytes of v, most significant first
RECURSIVE to_be_bytes(_, _)
to_be_bytes(v, n) ==
    IF n = 0 THEN <<>> ELSE to_be_bytes(v \div 256, n - 1) \o <<v % 256>>

\* u32::to_le_bytes / u64::to_le_bytes: the n bytes of v, least significant first
RECURSIVE to_le_bytes(_, _)
to_le_bytes(v, n) ==
    IF n = 0 THEN <<>> ELSE <<v % 256>> \o to_le_bytes(v \div 256, n - 1)

write_cbor_internal(data, cbor_bytes) == data \o cbor_bytes

write_cbor_frame_internal(data, cbor_bytes) ==
    (data \o to_le_bytes(Len(cbor_bytes), 8)) \o cbor_bytes

write_u32_internal(data, value) == data \o to_le_bytes(value, 4)

\* (mutant) a u64 written in the 4 bytes of a u32
write_u64_internal_as_u32(data, value) == data \o to_le_bytes(value, 4)

write_u64_internal(data, value) == data \o to_le_bytes(value, 8)

\* (mutant) raw bytes put in front of the data instead of behind it
write_raw_bytes_internal_in_front(data, bytes) == bytes \o data

write_raw_bytes_internal(data, bytes) == data \o bytes

write_frame_internal(data, bytes) ==
    (data \o to_le_bytes(Len(bytes), 8)) \o bytes

\* InputBuilder::build
build(ib) == ib.data

\* InputBuilder::size
size(ib) == Len(ib.data)

(***************************************************************************)
(* Composer (src/src/composer.rs)                                          *)
(***************************************************************************)
\* what a call returns: the operation, "ok" or the error raised, and what it carries
\*   issues            preflight_check: the issues found (returned, or in the error)
\*   invoked           prove: the prover backend was called
\*   mode, env_*       prove: the ProverOpts and ExecutorEnv handed to the backend
\*   value             a getter's value
\*   bytes             build: the bytes returned
\*   arg               the argument, where a property of the result needs it:
\*                     preflight_check's raise_on_error, prove's preflight,
\*                     verify's image id
\*   kind              prove: the kind argument
\*   object            the object returned: the Claim of Claim::new and Receipt::claim,
\*                     the Receipt of from_bytes and compress_to_succinct
\*   message           prove: the words of the prover's error message, if it failed
Ret(op, err) ==
    [op |-> op, err |-> err, issues |-> {}, invoked |-> FALSE, mode |-> "",
     env_assumptions |-> <<>>, env_input |-> <<>>, value |-> 0, bytes |-> <<>>,
     arg |-> None, kind |-> None, object |-> None, message |-> None]

\* the claim key assume and preflight_check compute for a receipt:
\* (claim_value.pre.digest(), hash_bytes(journal.bytes))
claim_key(r) == <<r.pre, Sha256(r.journal)>>

\* (mutant) assume without the is_unconditional check
assume_check_no_conditional_test(r) ==
    IF kind(r) = "Fake" THEN "IsFake"
    ELSE IF ~IsOk(exit(r)) THEN exit(r).err
    ELSE IF ~ExitStatus_ok(exit(r).val) THEN "FailedExit"
    ELSE claim_value(r).err

\* (mutant) assume without the Fake check
assume_check_no_fake_test(r) ==
    IF ~is_unconditional(r) THEN "IsComposite"
    ELSE IF ~IsOk(exit(r)) THEN exit(r).err
    ELSE IF ~ExitStatus_ok(exit(r).val) THEN "FailedExit"
    ELSE claim_value(r).err

\* the checks of assume before it touches the Composer, in the code's order:
\* "ok", or the error raised
assume_check(r) ==
    IF ~is_unconditional(r) THEN "IsComposite"
    ELSE IF kind(r) = "Fake" THEN "IsFake"
    ELSE IF ~IsOk(exit(r)) THEN exit(r).err
    ELSE IF ~ExitStatus_ok(exit(r).val) THEN "FailedExit"
    ELSE claim_value(r).err

\* (mutant) assume that appends without looking for a duplicate
assume_insert_no_dedup(as, ds, r) ==
    [assumptions |-> Append(as, r), assumption_digests |-> ds \cup {claim_key(r)}]

\* (mutant) assume that does not record the key of the receipt it appends
assume_insert_no_record(as, ds, r) ==
    IF claim_key(r) \in ds
    THEN [assumptions |-> as, assumption_digests |-> ds]
    ELSE [assumptions |-> Append(as, r), assumption_digests |-> ds]

\* (mutant) assume that replaces the receipt of a key by the later one
assume_insert_last_wins(as, ds, r) ==
    IF claim_key(r) \in ds
    THEN [assumptions |-> [i \in 1..Len(as) |->
                              IF claim_key(as[i]) = claim_key(r) THEN r ELSE as[i]],
          assumption_digests |-> ds]
    ELSE [assumptions |-> Append(as, r), assumption_digests |-> ds \cup {claim_key(r)}]

\* the dedup and insertion of assume, on (assumptions, assumption_digests)
assume_insert(as, ds, r) ==
    IF claim_key(r) \in ds
    THEN [assumptions |-> as, assumption_digests |-> ds]
    ELSE [assumptions |-> Append(as, r), assumption_digests |-> ds \cup {claim_key(r)}]

\* (mutant) assume that inserts the receipt before it has checked it
assume_inserts_first(c, r) ==
    LET e == assume_check(r)
        after == assume_insert(c.assumptions, c.assumption_digests, r)
    IN  [err |-> e, assumptions |-> after.assumptions,
         assumption_digests |-> after.assumption_digests]

\* Composer::assume on c = [assumptions, assumption_digests]: the error and the two
\* fields after the call
assume(c, r) ==
    LET e == assume_check(r)
        after == IF e = "ok" THEN assume_insert(c.assumptions, c.assumption_digests, r)
                 ELSE [assumptions |-> c.assumptions,
                       assumption_digests |-> c.assumption_digests]
    IN  [err |-> e, assumptions |-> after.assumptions,
         assumption_digests |-> after.assumption_digests]

\* (mutant) assume_many that goes on after a rejected receipt and returns the first error
RECURSIVE assume_many_goes_on(_, _)
assume_many_goes_on(c, receipts) ==
    IF receipts = <<>>
    THEN [err |-> "ok", assumptions |-> c.assumptions,
          assumption_digests |-> c.assumption_digests]
    ELSE LET res == assume(c, Head(receipts))
             rest == assume_many_goes_on(res, Tail(receipts))
         IN  IF res.err # "ok" THEN [rest EXCEPT !.err = res.err] ELSE rest

\* Composer::assume_many: assume for each receipt, `?` returns at the first error
RECURSIVE assume_many(_, _)
assume_many(c, receipts) ==
    IF receipts = <<>>
    THEN [err |-> "ok", assumptions |-> c.assumptions,
          assumption_digests |-> c.assumption_digests]
    ELSE LET res == assume(c, Head(receipts)) IN
         IF res.err # "ok" THEN res ELSE assume_many(res, Tail(receipts))

\* Composer::assumption_count
assumption_count == Len(assumptions)

\* Composer::input_size
input_size == size(input_builder)

\* Composer::new
Init ==
    /\ image = "outer.elf"
    /\ assumptions = <<>>
    /\ assumption_digests = {}
    /\ input_builder = [data |-> <<>>]
    /\ expected_verifications = <<>>
    /\ ret = Ret("new", "ok")
    /\ accepted = <<>>
    /\ nwrites = 0
    /\ proved = FALSE
    /\ receipt = R_A7
    /\ builder = [data |-> <<>>]
    /\ written = <<>>

\* the successful assume, expect_verification and write_* calls made so far
Calls == Len(accepted) + Len(expected_verifications) + nwrites

Self == [assumptions |-> assumptions, assumption_digests |-> assumption_digests]

\* the receipts of a list that assume_many passes to assume and assume accepts
RECURSIVE accepted_prefix(_)
accepted_prefix(receipts) ==
    IF receipts = <<>> \/ assume_check(Head(receipts)) # "ok" THEN <<>>
    ELSE <<Head(receipts)>> \o accepted_prefix(Tail(receipts))

Assume(r) ==
    LET res == assume(Self, r) IN
    /\ res.err = "ok" => Calls < MaxOps
    /\ assumptions' = res.assumptions
    /\ assumption_digests' = res.assumption_digests
    /\ ret' = Ret("assume", res.err)
    /\ accepted' = accepted \o accepted_prefix(<<r>>)
    /\ UNCHANGED <<image, input_builder, expected_verifications, nwrites, proved,
                   receipt, builder, written>>

AssumeMany(receipts) ==
    LET res == assume_many(Self, receipts) IN
    /\ Calls + Len(accepted_prefix(receipts)) <= MaxOps
    /\ assumptions' = res.assumptions
    /\ assumption_digests' = res.assumption_digests
    /\ ret' = Ret("assume_many", res.err)
    /\ accepted' = accepted \o accepted_prefix(receipts)
    /\ UNCHANGED <<image, input_builder, expected_verifications, nwrites, proved,
                   receipt, builder, written>>

\* ---- the write operations: each delegates to the internal InputBuilder ----

\* the arguments the write operations are called with
U32Args == {7}
U64Args == {7}
ByteArgs == {J7}
Bytes32Args == {ID_A, ID_SHORT, ID_LONG}

\* a write that returned Ok with the builder's data now `data`
Wrote(op, data) ==
    /\ Calls < MaxOps
    /\ input_builder' = [input_builder EXCEPT !.data = data]
    /\ nwrites' = nwrites + 1
    /\ ret' = Ret(op, "ok")
    /\ UNCHANGED <<image, assumptions, assumption_digests, expected_verifications,
                   accepted, proved, receipt, builder, written>>

\* a call that raised `err` before it changed anything
Raised(op, err) ==
    /\ ret' = Ret(op, err)
    /\ UNCHANGED <<cstate, history, receipt, builder, written>>

\* Composer::write_cbor
WriteCbor(cbor_bytes) ==
    Wrote("write_cbor", write_cbor_internal(input_builder.data, cbor_bytes))

\* Composer::write_cbor_frame
WriteCborFrame(cbor_bytes) ==
    Wrote("write_cbor_frame", write_cbor_frame_internal(input_builder.data, cbor_bytes))

\* Composer::write_u32
WriteU32(value) ==
    Wrote("write_u32", write_u32_internal(input_builder.data, value))

\* Composer::write_u64
WriteU64(value) ==
    Wrote("write_u64", write_u64_internal(input_builder.data, value))

\* Composer::write_raw_bytes
WriteRawBytes(bytes) ==
    Wrote("write_raw_bytes", write_raw_bytes_internal(input_builder.data, bytes))

\* Composer::write_frame
WriteFrame(bytes) ==
    Wrote("write_frame", write_frame_internal(input_builder.data, bytes))

\* (mutant) write_bytes32 that appends whatever it is given
write_bytes32_unchecked(op, bytes) ==
    Wrote(op, write_raw_bytes_internal(input_builder.data, bytes))

\* Composer::write_bytes32, under the name `op` it was called by
write_bytes32(op, bytes) ==
    IF Len(bytes) # 32 THEN Raised(op, "InvalidLength")
    ELSE Wrote(op, write_raw_bytes_internal(input_builder.data, bytes))

WriteBytes32(bytes) == write_bytes32("write_bytes32", bytes)

\* Composer::write_image_id
WriteImageId(image_id) == write_bytes32("write_image_id", image_id)

\* ---- expectations and preflight ----

\* the (image_id, journal) pairs expect_verification is called with
ExpectArgs == {<<ID_A, J7>>, <<ID_B, J7>>, <<ID_SHORT, J7>>, <<ID_LONG, J8>>}

\* (mutant) expect_verification that keeps one expectation per key, as assume does
ExpectVerification_dedup(image_id, journal) ==
    IF Len(image_id) # 32 THEN Raised("expect_verification", "InvalidLength")
    ELSE /\ Calls < MaxOps
         /\ expected_verifications' =
                IF \E i \in 1..Len(expected_verifications) :
                      expected_verifications[i] = <<image_id, journal>>
                THEN expected_verifications
                ELSE Append(expected_verifications, <<image_id, journal>>)
         /\ ret' = Ret("expect_verification", "ok")
         /\ UNCHANGED <<image, assumptions, assumption_digests, input_builder,
                        history, receipt, builder, written>>

\* (mutant) expect_verification that starts the input over
ExpectVerification_clearing_input(image_id, journal) ==
    IF Len(image_id) # 32 THEN Raised("expect_verification", "InvalidLength")
    ELSE /\ Calls < MaxOps
         /\ expected_verifications' = Append(expected_verifications, <<image_id, journal>>)
         /\ input_builder' = [input_builder EXCEPT !.data = <<>>]
         /\ ret' = Ret("expect_verification", "ok")
         /\ UNCHANGED <<image, assumptions, assumption_digests,
                        history, receipt, builder, written>>

\* Composer::expect_verification
ExpectVerification(image_id, journal) ==
    IF Len(image_id) # 32 THEN Raised("expect_verification", "InvalidLength")
    ELSE /\ Calls < MaxOps
         /\ expected_verifications' = Append(expected_verifications, <<image_id, journal>>)
         /\ ret' = Ret("expect_verification", "ok")
         /\ UNCHANGED <<image, assumptions, assumption_digests, input_builder,
                        history, receipt, builder, written>>

\* preflight_check's assumption_claims: claim key -> number of assumptions with it,
\* over the assumptions whose claim value can be read
assumption_claims(as) ==
    LET readable == {i \in 1..Len(as) : IsOk(claim_value(as[i]))}
        keys == {claim_key(as[i]) : i \in readable}
    IN  [k \in keys |-> Cardinality({i \in readable : claim_key(as[i]) = k})]

\* the key preflight_check computes for an expectation (image_id, journal)
expected_key(e) == <<e[1], Sha256(e[2])>>

\* (mutant) expected_claims that notes each key once, however often it is expected
expected_claims_once(ev) ==
    LET valid == {i \in 1..Len(ev) : Len(ev[i][1]) = 32}
        keys == {expected_key(ev[i]) : i \in valid}
    IN  [k \in keys |-> 1]

\* preflight_check's expected_claims: claim key -> number of expectations with it,
\* over the expectations whose image id has 32 bytes
expected_claims(ev) ==
    LET valid == {i \in 1..Len(ev) : Len(ev[i][1]) = 32}
        keys == {expected_key(ev[i]) : i \in valid}
    IN  [k \in keys |-> Cardinality({i \in valid : expected_key(ev[i]) = k})]

\* An issue of preflight_check.  The code pushes one message per loop iteration; the
\* record names the message (kind), the map key of the iteration, and the counts the
\* message prints.  The two maps are iterated in no fixed order, so the list is
\* modelled by the set of its issues (no two iterations give the same record).
\*   "InvalidImageIdLength"  expectation number `at` has an image id of `have` bytes
\*   "MissingAssumption"     key expected, no assumption has it
\*   "NotEnoughAssumptions"  key expected `expected` times, `have` assumptions have it
\*   "UnusedAssumption"      key assumed, not expected
Issue(k, key, expected, have, at) ==
    [kind |-> k, key |-> key, expected |-> expected, have |-> have, at |-> at]

\* (mutant) preflight_check without the loop over the assumptions
preflight_issues_no_unused(as, ev) ==
    LET A == assumption_claims(as)
        E == expected_claims(ev)
    IN  { Issue("InvalidImageIdLength", expected_key(ev[i]), 0, Len(ev[i][1]), i) :
            i \in {i \in 1..Len(ev) : Len(ev[i][1]) # 32} }
        \cup
        { Issue("MissingAssumption", k, E[k], 0, 0) :
            k \in {k \in DOMAIN E : k \notin DOMAIN A} }
        \cup
        { Issue("NotEnoughAssumptions", k, E[k], A[k], 0) :
            k \in {k \in DOMAIN E : k \in DOMAIN A /\ A[k] < E[k]} }

\* (mutant) preflight_check that does not compare the counts of a key
preflight_issues_no_count(as, ev) ==
    LET A == assumption_claims(as)
        E == expected_claims(ev)
    IN  { Issue("InvalidImageIdLength", expected_key(ev[i]), 0, Len(ev[i][1]), i) :
            i \in {i \in 1..Len(ev) : Len(ev[i][1]) # 32} }
        \cup
        { Issue("MissingAssumption", k, E[k], 0, 0) :
            k \in {k \in DOMAIN E : k \notin DOMAIN A} }
        \cup
        { Issue("UnusedAssumption", k, 0, A[k], 0) :
            k \in {k \in DOMAIN A : k \notin DOMAIN E} }

\* (mutant) preflight_check that reports every assumption key as unused
preflight_issues_unused_all(as, ev) ==
    LET A == assumption_claims(as)
        E == expected_claims(ev)
    IN  { Issue("InvalidImageIdLength", expected_key(ev[i]), 0, Len(ev[i][1]), i) :
            i \in {i \in 1..Len(ev) : Len(ev[i][1]) # 32} }
        \cup
        { Issue("MissingAssumption", k, E[k], 0, 0) :
            k \in {k \in DOMAIN E : k \notin DOMAIN A} }
        \cup
        { Issue("NotEnoughAssumptions", k, E[k], A[k], 0) :
            k \in {k \in DOMAIN E : k \in DOMAIN A /\ A[k] < E[k]} }
        \cup
        { Issue("UnusedAssumption", k, 0, A[k], 0) : k \in DOMAIN A }

\* (mutant) preflight_check that looks for the assumption of each expectation of the
\* list, not of each key of expected_claims
preflight_issues_per_expectation(as, ev) ==
    LET A == assumption_claims(as)
        E == expected_claims(ev)
    IN  { Issue("InvalidImageIdLength", expected_key(ev[i]), 0, Len(ev[i][1]), i) :
            i \in {i \in 1..Len(ev) : Len(ev[i][1]) # 32} }
        \cup
        { Issue("MissingAssumption", expected_key(ev[i]), E[expected_key(ev[i])], 0, i) :
            i \in {i \in 1..Len(ev) : Len(ev[i][1]) = 32
                                       /\ expected_key(ev[i]) \notin DOMAIN A} }
        \cup
        { Issue("NotEnoughAssumptions", k, E[k], A[k], 0) :
            k \in {k \in DOMAIN E : k \in DOMAIN A /\ A[k] < E[k]} }
        \cup
        { Issue("UnusedAssumption", k, 0, A[k], 0) :
            k \in {k \in DOMAIN A : k \notin DOMAIN E} }

\* the issues preflight_check collects
preflight_issues(as, ev) ==
    LET A == assumption_claims(as)
        E == expected_claims(ev)
    IN  { Issue("InvalidImageIdLength", expected_key(ev[i]), 0, Len(ev[i][1]), i) :
            i \in {i \in 1..Len(ev) : Len(ev[i][1]) # 32} }
        \cup
        { Issue("MissingAssumption", k, E[k], 0, 0) :
            k \in {k \in DOMAIN E : k \notin DOMAIN A} }
        \cup
        { Issue("NotEnoughAssumptions", k, E[k], A[k], 0) :
            k \in {k \in DOMAIN E : k \in DOMAIN A /\ A[k] < E[k]} }
        \cup
        { Issue("UnusedAssumption", k, 0, A[k], 0) :
            k \in {k \in DOMAIN A : k \notin DOMAIN E} }

\* (mutant) preflight_check that raises on issues whatever raise_on_error is
preflight_check_always_raises(as, ev, raise_on_error) ==
    LET issues == preflight_issues(as, ev) IN
    IF issues # {}
    THEN [err |-> "PreflightFailed", issues |-> issues]
    ELSE [err |-> "ok", issues |-> issues]

\* Composer::preflight_check: the error and the issues (returned, or carried by the error)
preflight_check(as, ev, raise_on_error) ==
    LET issues == preflight_issues(as, ev) IN
    IF raise_on_error /\ issues # {}
    THEN [err |-> "PreflightFailed", issues |-> issues]
    ELSE [err |-> "ok", issues |-> issues]

PreflightCheck(raise_on_error) ==
    LET res == preflight_check(assumptions, expected_verifications, raise_on_error) IN
    /\ ret' = [Ret("preflight_check", res.err) EXCEPT !.issues = res.issues,
                                                      !.arg = Some(PyBool(raise_on_error))]
    /\ UNCHANGED <<cstate, history, receipt, builder, written>>

\* ---- prove ----

\* the `kind` argument: absent, a ReceiptKind, a string, or an object of another type
KindEnum(k) == Some([type |-> "ReceiptKind", val |-> k])
KindStr(s) == Some([type |-> "str", val |-> s])
KindInt == Some([type |-> "int", val |-> "1"])

KindArgs ==
    {None, KindInt}
    \cup {KindEnum(k) : k \in {"Composite", "Succinct", "Groth16", "Fake"}}
    \cup {KindStr(s) : s \in {"composite", "Succinct", "GROTH16", "fake"}}

\* str::to_lowercase on the strings of KindArgs
to_lowercase(s) ==
    CASE s = "Succinct" -> "succinct"
      [] s = "GROTH16" -> "groth16"
      [] OTHER -> s

\* the proof kind prove determines from its argument, or the error raised
proof_kind(k) ==
    IF k = None THEN Ok("Succinct")
    ELSE IF k[1].type = "ReceiptKind" THEN Ok(k[1].val)
    ELSE IF k[1].type = "str"
    THEN CASE to_lowercase(k[1].val) = "composite" -> Ok("Composite")
           [] to_lowercase(k[1].val) = "succinct" -> Ok("Succinct")
           [] to_lowercase(k[1].val) = "groth16" -> Ok("Groth16")
           [] OTHER -> Err("InvalidKind")
    ELSE Err("InvalidKindType")

\* (mutant) prove that takes the default options for the Fake kind
prover_opts_allows_fake(pk) ==
    CASE pk = "Composite" -> Ok("default")
      [] pk = "Succinct" -> Ok("succinct")
      [] pk = "Groth16" -> Ok("groth16")
      [] pk = "Fake" -> Ok("default")

\* the ProverOpts prove chooses for a proof kind, or the error raised
prover_opts(pk) ==
    CASE pk = "Composite" -> Ok("default")
      [] pk = "Succinct" -> Ok("succinct")
      [] pk = "Groth16" -> Ok("groth16")
      [] pk = "Fake" -> Err("FakeNotProvable")

\* What the backend (ExecutorEnv::build, Prover::prove_with_opts) does when called:
\* build succeeds or not, and the prover returns a receipt or an error whose message
\* holds the words of `words`.
Backend(build_ok, prove_ok, words) ==
    [build_ok |-> build_ok, prove_ok |-> prove_ok, words |-> words]

B_NoEnv == Backend(FALSE, TRUE, {})
B_Ok == Backend(TRUE, TRUE, {})
B_Fails == Backend(TRUE, FALSE, {})
B_FailsAssumption == Backend(TRUE, FALSE, {"assumption"})
B_FailsVerify == Backend(TRUE, FALSE, {"verify"})
Backends == {B_NoEnv, B_Ok, B_Fails, B_FailsAssumption, B_FailsVerify}

\* the (kind, preflight, backend behaviour) triples prove is called with.  With the
\* preflight check: every kind argument with a backend that succeeds, every backend
\* behaviour with the default kind, two prover modes with a backend that fails and the
\* Fake kind with an environment that cannot be built; without it: the default, the
\* Fake and the ill-typed kind, and a failing backend or environment.
ProveArgs ==
    {<<k, TRUE, B_Ok>> : k \in KindArgs}
    \cup {<<None, TRUE, b>> : b \in Backends}
    \cup {<<KindEnum("Composite"), TRUE, B_FailsVerify>>,
          <<KindStr("GROTH16"), TRUE, B_Fails>>,
          <<KindEnum("Fake"), TRUE, B_NoEnv>>}
    \cup {<<None, FALSE, B_Ok>>, <<None, FALSE, B_Fails>>,
          <<None, FALSE, B_FailsAssumption>>, <<KindInt, FALSE, B_Ok>>,
          <<KindEnum("Fake"), FALSE, B_Ok>>, <<KindEnum("Fake"), FALSE, B_NoEnv>>}

\* String::contains on a prover error message
contains(words, w) == w \in words

\* (mutant) prove that looks at its kind argument before it runs the preflight check
prove_kind_first(as, ev, ib, k, preflight, backend) ==
    LET pre == IF preflight THEN preflight_check(as, ev, TRUE)
               ELSE [err |-> "ok", issues |-> {}]
        pk == proof_kind(k)
        opts == prover_opts(pk.val)
        called(err) == [Ret("prove", err) EXCEPT !.invoked = TRUE, !.mode = opts.val,
                                                  !.env_assumptions = as,
                                                  !.env_input = build(ib)]
    IN  IF ~IsOk(pk) THEN Ret("prove", pk.err)
        ELSE IF ~IsOk(opts) THEN Ret("prove", opts.err)
        ELSE IF ~IsOk(pre) THEN [Ret("prove", pre.err) EXCEPT !.issues = pre.issues]
        ELSE IF ~backend.build_ok THEN Ret("prove", "EnvBuildError")
        ELSE IF backend.prove_ok THEN called("ok")
        ELSE IF contains(backend.words, "assumption") \/ contains(backend.words, "verify")
        THEN called("ClaimMismatchLikely")
        ELSE called("ProverError")

\* (mutant) prove that adds the assumptions to the environment last first
prove_env_reversed(as, ev, ib, k, preflight, backend) ==
    LET pre == IF preflight THEN preflight_check(as, ev, TRUE)
               ELSE [err |-> "ok", issues |-> {}]
        pk == proof_kind(k)
        opts == prover_opts(pk.val)
        called(err) == [Ret("prove", err) EXCEPT !.invoked = TRUE, !.mode = opts.val,
                                                  !.env_assumptions =
                                                      [i \in 1..Len(as) |-> as[Len(as) + 1 - i]],
                                                  !.env_input = build(ib)]
    IN  IF ~IsOk(pre) THEN [Ret("prove", pre.err) EXCEPT !.issues = pre.issues]
        ELSE IF ~backend.build_ok THEN Ret("prove", "EnvBuildError")
        ELSE IF ~IsOk(pk) THEN Ret("prove", pk.err)
        ELSE IF ~IsOk(opts) THEN Ret("prove", opts.err)
        ELSE IF backend.prove_ok THEN called("ok")
        ELSE IF contains(backend.words, "assumption") \/ contains(backend.words, "verify")
        THEN called("ClaimMismatchLikely")
        ELSE called("ProverError")

\* (mutant) prove that reports every prover error alike
prove_unmapped(as, ev, ib, k, preflight, backend) ==
    LET pre == IF preflight THEN preflight_check(as, ev, TRUE)
               ELSE [err |-> "ok", issues |-> {}]
        pk == proof_kind(k)
        opts == prover_opts(pk.val)
        called(err) == [Ret("prove", err) EXCEPT !.invoked = TRUE, !.mode = opts.val,
                                                  !.env_assumptions = as,
                                                  !.env_input = build(ib)]
    IN  IF ~IsOk(pre) THEN [Ret("prove", pre.err) EXCEPT !.issues = pre.issues]
        ELSE IF ~backend.build_ok THEN Ret("prove", "EnvBuildError")
        ELSE IF ~IsOk(pk) THEN Ret("prove", pk.err)
        ELSE IF ~IsOk(opts) THEN Ret("prove", opts.err)
        ELSE IF backend.prove_ok THEN called("ok")
        ELSE called("ProverError")

\* Composer::prove as a function of the Composer's fields: what it returns
prove(as, ev, ib, k, preflight, backend) ==
    LET pre == IF preflight THEN preflight_check(as, ev, TRUE)
               ELSE [err |-> "ok", issues |-> {}]
        pk == proof_kind(k)
        opts == prover_opts(pk.val)
        called(err) == [Ret("prove", err) EXCEPT !.invoked = TRUE, !.mode = opts.val,
                                                  !.env_assumptions = as,
                                                  !.env_input = build(ib)]
    IN  IF ~IsOk(pre) THEN [Ret("prove", pre.err) EXCEPT !.issues = pre.issues]
        ELSE IF ~backend.build_ok THEN Ret("prove", "EnvBuildError")
        ELSE IF ~IsOk(pk) THEN Ret("prove", pk.err)
        ELSE IF ~IsOk(opts) THEN Ret("prove", opts.err)
        ELSE IF backend.prove_ok THEN called("ok")
        ELSE IF contains(backend.words, "assumption") \/ contains(backend.words, "verify")
        THEN called("ClaimMismatchLikely")
        ELSE called("ProverError")

\* (mutant) prove that consumes the Composer when it returns a Receipt
Prove_consuming(k, preflight, backend) ==
    LET res == prove(assumptions, expected_verifications, input_builder,
                     k, preflight, backend) IN
    /\ ret' = [res EXCEPT !.arg = Some(PyBool(preflight)), !.kind = k]
    /\ proved' = (proved \/ IsOk(res))
    /\ assumptions' = IF IsOk(res) THEN <<>> ELSE assumptions
    /\ assumption_digests' = IF IsOk(res) THEN {} ELSE assumption_digests
    /\ input_builder' = IF IsOk(res) THEN [data |-> <<>>] ELSE input_builder
    /\ expected_verifications' = IF IsOk(res) THEN <<>> ELSE expected_verifications
    /\ UNCHANGED <<image, accepted, nwrites, receipt, builder, written>>

\* (mutant) prove that moves the input buffer into the environment and so has lost
\* it when it fails
Prove_taking_input(k, preflight, backend) ==
    LET res == prove(assumptions, expected_verifications, input_builder,
                     k, preflight, backend) IN
    /\ ret' = [res EXCEPT !.arg = Some(PyBool(preflight)), !.kind = k]
    /\ proved' = (proved \/ IsOk(res))
    /\ input_builder' = IF IsOk(res) THEN input_builder ELSE [data |-> <<>>]
    /\ UNCHANGED <<image, assumptions, assumption_digests, expected_verifications,
                   accepted, nwrites, receipt, builder, written>>

\* Composer::prove
Prove(k, preflight, backend) ==
    LET res == prove(assumptions, expected_verifications, input_builder,
                     k, preflight, backend) IN
    /\ ret' = [res EXCEPT !.arg = Some(PyBool(preflight)), !.kind = k,
                          !.message = IF res.invoked /\ ~backend.prove_ok
                                      THEN Some(backend.words) ELSE None]
    /\ proved' = (proved \/ IsOk(res))
    /\ UNCHANGED <<cstate, accepted, nwrites, receipt, builder, written>>

\* ---- getters ----

InputSize ==
    /\ ret' = [Ret("input_size", "ok") EXCEPT !.value = input_size]
    /\ UNCHANGED <<cstate, history, receipt, builder, written>>

AssumptionCount ==
    /\ ret' = [Ret("assumption_count", "ok") EXCEPT !.value = assumption_count]
    /\ UNCHANGED <<cstate, history, receipt, builder, written>>

\* the receipt lists assume_many is called with
ReceiptLists ==
    {<<>>, <<R_A7, R_A7g>>, <<R_A8, R_Halted1, R_A7>>, <<R_Composite, R_A7>>,
     <<R_A7g, R_A8, R_A7>>}

Next ==
    \/ \E r \in Receipts : Assume(r)
    \/ \E rs \in ReceiptLists : AssumeMany(rs)
    \/ \E b \in ByteArgs : WriteCbor(b)
    \/ \E b \in ByteArgs : WriteCborFrame(b)
    \/ \E v \in U32Args : WriteU32(v)
    \/ \E v \in U64Args : WriteU64(v)
    \/ \E b \in ByteArgs : WriteRawBytes(b)
    \/ \E b \in ByteArgs : WriteFrame(b)
    \/ \E b \in Bytes32Args : WriteBytes32(b)
    \/ \E b \in Bytes32Args : WriteImageId(b)
    \/ \E e \in ExpectArgs : ExpectVerification(e[1], e[2])
    \/ \E raise \in BOOLEAN : PreflightCheck(raise)
    \/ \E a \in ProveArgs : Prove(a[1], a[2], a[3])
    \/ InputSize
    \/ AssumptionCount

Spec == Init /\ [][Next]_vars

(***************************************************************************)
(* The Receipt methods, called on any receipt.                             *)
(***************************************************************************)
\* str::to_uppercase on a hex string
to_uppercase(str) ==
    [i \in 1..Len(str) |->
        CASE str[i] = "a" -> "A" [] str[i] = "b" -> "B" [] str[i] = "c" -> "C"
          [] str[i] = "d" -> "D" [] str[i] = "e" -> "E" [] str[i] = "f" -> "F"
          [] OTHER -> str[i]]

\* the objects verify is called with
VerifyArgs ==
    {PyBytes(b) : b \in {ID_A, ID_B, ID_SHORT, ID_LONG}}
    \cup {PyImage(i) : i \in {Some(ID_A), Some(ID_B), None}}
    \cup {PyStr(h) :
            h \in {hex_encode(ID_A), hex_encode(ID_B), to_uppercase(hex_encode(ID_A)),
                   <<"0", "x">> \o hex_encode(ID_A), <<"0", "X">> \o hex_encode(ID_B),
                   hex_encode(ID_SHORT), <<"a">> \o hex_encode(ID_SHORT),
                   <<"g", "g">> \o hex_encode(ID_SHORT)}}
    \cup {PyInt}

InitReceipt ==
    /\ image = "outer.elf"
    /\ assumptions = <<>>
    /\ assumption_digests = {}
    /\ input_builder = [data |-> <<>>]
    /\ expected_verifications = <<>>
    /\ ret = Ret("new", "ok")
    /\ accepted = <<>>
    /\ nwrites = 0
    /\ proved = FALSE
    /\ receipt \in AllReceipts
    /\ builder = [data |-> <<>>]
    /\ written = <<>>

\* a Receipt method returned: the receipt is immutable, nothing else is touched
Returned(r) ==
    /\ ret' = r
    /\ UNCHANGED <<cstate, history, receipt, builder, written>>

Verify(image_id) ==
    Returned([Ret("verify", verify(receipt, image_id)) EXCEPT !.arg = Some(image_id)])

VerifyBytes(image_id) ==
    Returned([Ret("verify_bytes", verify_bytes(receipt, image_id))
                EXCEPT !.arg = Some(PyBytes(image_id))])

VerifyHex(image_id_hex) ==
    Returned([Ret("verify_hex", verify_hex(receipt, image_id_hex))
                EXCEPT !.arg = Some(PyStr(image_id_hex))])

VerifyIntegrity ==
    Returned(Ret("verify_integrity", verify_integrity(receipt)))

VerifyIntegrityWithContext ==
    Returned(Ret("verify_integrity_with_context", verify_integrity_with_context(receipt)))

\* ---- serialization ----

\* Receipt::assumption_count
Receipt_assumption_count(r) == IF r.inner = "Composite" THEN r.nassum ELSE 0

\* the serde variant indices of InnerReceipt, MaybePruned-or-undecodable claim, ExitCode
InnerIndex(inner) ==
    CASE inner = "Composite" -> 0 [] inner = "Succinct" -> 1 [] inner = "Groth16" -> 2
      [] inner = "Fake" -> 3 [] OTHER -> 4
InnerOfIndex == <<"Composite", "Succinct", "Groth16", "Fake", "Future">>
ClaimIndex(claim) == CASE claim = "value" -> 0 [] claim = "pruned" -> 1 [] OTHER -> 2
ClaimOfIndex == <<"value", "pruned", "error">>
ExitIndex(e) ==
    CASE e.tag = "Halted" -> 0 [] e.tag = "Paused" -> 1 [] e.tag = "SystemSplit" -> 2
      [] OTHER -> 3

\* bincode::serialize(&self.inner), bincode's fixed-width little-endian layout: a u32
\* variant index per enum, a u64 length before each sequence, one byte per bool
bincode_serialize(r) ==
    to_le_bytes(InnerIndex(r.inner), 4) \o <<ClaimIndex(r.claim)>> \o r.pre
      \o to_le_bytes(ExitIndex(r.exit), 4)
      \o (IF r.exit.code = None THEN <<>> ELSE to_le_bytes(r.exit.code[1], 4))
      \o to_le_bytes(Len(r.journal), 8) \o r.journal
      \o <<IF r.seal_ok THEN 1 ELSE 0>>
      \o to_le_bytes(r.nassum, 8)

\* the integer of w little-endian bytes after position pos of data; -1 if it is 2^31
\* or more
from_le_bytes(data, pos, w) ==
    IF (\E i \in 5..w : data[pos + i] # 0) \/ data[pos + 4] >= 128 THEN -1
    ELSE data[pos + 1] + 256 * data[pos + 2] + 65536 * data[pos + 3]
           + 16777216 * data[pos + 4]

\* bincode::deserialize(&data): reads the fields one after the other, fails when the
\* input ends early or holds an invalid variant index, bool or length, and, as
\* bincode's top-level deserialize does, ignores the bytes after the value
bincode_deserialize(data) ==
    LET n == Len(data) IN
    IF n < 41 THEN Err("DeserializeError")
    ELSE
      LET itag == from_le_bytes(data, 0, 4)
          ctag == data[5]
          etag == from_le_bytes(data, 37, 4)
          q == IF etag \in {0, 1} THEN 45 ELSE 41
      IN
      IF itag \notin 0..4 \/ ctag \notin 0..2 \/ etag \notin 0..3 \/ n < q + 8
      THEN Err("DeserializeError")
      ELSE
        LET code == from_le_bytes(data, 41, 4)
            jl == from_le_bytes(data, q, 8)
        IN
        IF (etag \in {0, 1} /\ code < 0) \/ jl < 0 \/ n < q + 8 + jl + 9
        THEN Err("DeserializeError")
        ELSE
          LET seal == data[q + 8 + jl + 1]
              na == from_le_bytes(data, q + 8 + jl + 1, 8)
          IN
          IF seal \notin {0, 1} \/ na < 0 THEN Err("DeserializeError")
          ELSE Ok(Rcpt(InnerOfIndex[itag + 1], ClaimOfIndex[ctag + 1],
                       SubSeq(data, 6, 37),
                       CASE etag = 0 -> Halted(code) [] etag = 1 -> Paused(code)
                         [] etag = 2 -> SystemSplit [] OTHER -> SessionLimit,
                       SubSeq(data, q + 9, q + 8 + jl),
                       seal = 1, na))

\* Receipt::to_bytes
to_bytes(r) == Ok(bincode_serialize(r))

\* Receipt::from_bytes
from_bytes(data) == bincode_deserialize(data)

\* Receipt::to_bytes
ToBytes ==
    Returned([Ret("to_bytes", "ok") EXCEPT !.bytes = to_bytes(receipt).val])

\* the byte strings from_bytes is given: a serialized receipt, one followed by a byte,
\* one cut short, one with its first variant index overwritten, and bytes of no receipt
FromBytesArgs ==
    LET b == to_bytes(receipt).val IN
    {b, b \o <<0>>, SubSeq(b, 1, Len(b) - 1), [b EXCEPT ![1] = 9], <<>>, J7}

\* ---- compression (src/src/lib.rs) ----

\* Receipt::is_succinct
is_succinct(r) == r.inner = "Succinct"

\* default_prover().compress(&ProverOpts::succinct(), &receipt.inner) when it succeeds:
\* a succinct receipt of the same claim and journal, nothing left to resolve
Prover_compress(r) == [r EXCEPT !.inner = "Succinct", !.nassum = 0]

\* the optional `assumptions` argument, a list of receipts when it is given
PyReceipts(assumption_receipts) ==
    [type |-> "receipts", given |-> assumption_receipts # None,
     list |-> IF assumption_receipts = None THEN <<>> ELSE assumption_receipts[1]]

\* a prover whose compress fails with a message about something "unresolved"
B_FailsUnresolved == Backend(TRUE, FALSE, {"unresolved"})

\* (mutant) a compress call that hands back the receipt it was given
compress_call_returns_input(r, backend, unresolved_words) ==
    LET called(err) == [Ret("compress_to_succinct", err) EXCEPT !.invoked = TRUE] IN
    IF backend.prove_ok
    THEN [called("ok") EXCEPT !.object = Some(r)]
    ELSE IF \E w \in unresolved_words : contains(backend.words, w)
    THEN called("UnresolvedAssumptions")
    ELSE called("CompressFailed")

\* the call of the prover's compress and the mapping of its error, which looks for
\* the words `unresolved_words` in the message
compress_call(r, backend, unresolved_words) ==
    LET called(err) == [Ret("compress_to_succinct", err) EXCEPT !.invoked = TRUE] IN
    IF backend.prove_ok
    THEN [called("ok") EXCEPT !.object = Some(Prover_compress(r))]
    ELSE IF \E w \in unresolved_words : contains(backend.words, w)
    THEN called("UnresolvedAssumptions")
    ELSE called("CompressFailed")

\* (mutant) compression without the is_succinct test
compress_to_succinct_of_any_kind(r, assumption_receipts, backend) ==
    IF kind(r) = "Composite" /\ assumption_receipts # None
    THEN IF \E i \in 1..Len(assumption_receipts[1]) : ~is_unconditional(assumption_receipts[1][i])
         THEN Ret("compress_to_succinct", "ConditionalAssumption")
         ELSE compress_call(r, backend, {"assumption"})
    ELSE compress_call(r, backend, {"assumption", "unresolved"})

\* (mutant) compression that takes the assumptions as they come
compress_to_succinct_unvalidated(r, assumption_receipts, backend) ==
    IF is_succinct(r) THEN Ret("compress_to_succinct", "AlreadySuccinct")
    ELSE IF kind(r) = "Composite" /\ assumption_receipts # None
    THEN compress_call(r, backend, {"assumption"})
    ELSE compress_call(r, backend, {"assumption", "unresolved"})

\* compress_to_succinct
compress_to_succinct(r, assumption_receipts, backend) ==
    IF is_succinct(r) THEN Ret("compress_to_succinct", "AlreadySuccinct")
    ELSE IF kind(r) = "Composite" /\ assumption_receipts # None
    THEN IF \E i \in 1..Len(assumption_receipts[1]) : ~is_unconditional(assumption_receipts[1][i])
         THEN Ret("compress_to_succinct", "ConditionalAssumption")
         ELSE compress_call(r, backend, {"assumption"})
    ELSE compress_call(r, backend, {"assumption", "unresolved"})

\* the assumptions arguments and the prover behaviours compress_to_succinct is called with
CompressAssumptions ==
    {None, Some(<<>>), Some(<<R_A7>>), Some(<<R_Composite>>), Some(<<R_A7, R_Composite>>)}
CompressBackends == {B_Ok, B_Fails, B_FailsAssumption, B_FailsUnresolved}

\* the result `res` of `op`, with the object it returned if it returned one
Result(op, res) ==
    [Ret(op, res.err) EXCEPT !.object = IF IsOk(res) THEN Some(res.val) ELSE None]

\* Receipt::from_bytes
FromBytes(data) ==
    Returned([Result("from_bytes", from_bytes(data)) EXCEPT !.arg = Some(PyBytes(data))])

\* compress_to_succinct(receipt, assumptions)
CompressToSuccinct(assumption_receipts, backend) ==
    Returned([compress_to_succinct(receipt, assumption_receipts, backend)
                EXCEPT !.arg = Some(PyReceipts(assumption_receipts))])

\* a getter returned `value`
Got(op, value) == Returned([Ret(op, "ok") EXCEPT !.object = Some(value)])

\* Receipt::kind
Kind == Got("kind", kind(receipt))

\* Receipt::is_unconditional
IsUnconditional == Got("is_unconditional", is_unconditional(receipt))

\* Receipt::exit
Exit == Returned(Result("exit", exit(receipt)))

\* receipt.exit.ok: ExitStatus::ok of the status Receipt::exit returns
ExitOk ==
    IF IsOk(exit(receipt)) THEN Got("exit.ok", ExitStatus_ok(exit(receipt).val))
    ELSE Returned(Ret("exit.ok", exit(receipt).err))

\* Receipt::claim
ReceiptClaim == Returned(Result("claim", Receipt_claim(receipt)))

\* receipt.claim().is_success: Claim::is_success of the claim Receipt::claim returns
ClaimIsSuccess ==
    IF IsOk(Receipt_claim(receipt))
    THEN Got("claim.is_success", Claim_is_success(Receipt_claim(receipt).val))
    ELSE Returned(Ret("claim.is_success", Receipt_claim(receipt).err))

\* the arguments Claim::new is called with
ClaimNewArgs == {<<ID_A, J7, 0>>, <<ID_B, <<>>, 1>>, <<ID_SHORT, J7, 0>>}

\* Claim::new
ClaimNew(image_id, journal, exit_code) ==
    Returned([Result("Claim.new", Claim_new(image_id, journal, exit_code))
                EXCEPT !.arg = Some(PyBytes(journal))])

NextReceipt ==
    \/ \E a \in VerifyArgs : Verify(a)
    \/ \E a \in {a \in VerifyArgs : a.type = "bytes"} : VerifyBytes(a.bytes)
    \/ \E a \in {a \in VerifyArgs : a.type = "str"} : VerifyHex(a.str)
    \/ VerifyIntegrity
    \/ VerifyIntegrityWithContext
    \/ ToBytes
    \/ \E data \in FromBytesArgs : FromBytes(data)
    \/ \E a \in CompressAssumptions, b \in CompressBackends : CompressToSuccinct(a, b)
    \/ Kind
    \/ IsUnconditional
    \/ Exit
    \/ ExitOk
    \/ ReceiptClaim
    \/ ClaimIsSuccess
    \/ \E a \in ClaimNewArgs : ClaimNew(a[1], a[2], a[3])

SpecReceipt == InitReceipt /\ [][NextReceipt]_vars

(***************************************************************************)
(* The standalone InputBuilder (src/src/input_builder.rs): its public      *)
(* methods, called on one builder object.                                  *)
(***************************************************************************)
\* the calls made on the builder before it is set aside
MaxWrites == 2

\* the public write methods, as functions of the builder's data
InputBuilder_write_cbor(data, cbor_bytes) == data \o cbor_bytes

InputBuilder_write_u32(data, value) == data \o to_le_bytes(value, 4)

InputBuilder_write_u64(data, value) == data \o to_le_bytes(value, 8)

\* InputBuilder::write_bytes32: the new data, or the error raised
InputBuilder_write_bytes32(data, bytes) ==
    IF Len(bytes) # 32 THEN Err("InvalidLength") ELSE Ok(data \o bytes)

InputBuilder_write_image_id(data, image_id) == InputBuilder_write_bytes32(data, image_id)

InputBuilder_write_raw_bytes(data, bytes) == data \o bytes

InputBuilder_write_cbor_frame(data, cbor_bytes) ==
    (data \o to_le_bytes(Len(cbor_bytes), 8)) \o cbor_bytes

\* a frame whose length prefix is a u32, as write_u32 would write it
InputBuilder_write_frame_u32_len(data, bytes) ==
    (data \o to_le_bytes(Len(bytes), 4)) \o bytes

InputBuilder_write_frame(data, bytes) ==
    (data \o to_le_bytes(Len(bytes), 8)) \o bytes

\* the arguments the builder's methods are called with
BuilderU32Args == {7, 258}
BuilderU64Args == {258}
BuilderByteArgs == {<<>>, J7}
BuilderBytes32Args == {ID_A, ID_SHORT}

\* a call of the builder: its name and its argument, an integer or bytes
WriteCall(op, int, bytes) == [op |-> op, int |-> int, bytes |-> bytes]

\* InputBuilder::new
InitInputBuilder == Init

\* the call `call` returned with the builder's data now `data`
BuilderWrote(call, data) ==
    /\ Len(written) < MaxWrites
    /\ builder' = [builder EXCEPT !.data = data]
    /\ written' = Append(written, call)
    /\ ret' = Ret(call.op, "ok")
    /\ UNCHANGED <<cstate, history, receipt>>

\* a method of the builder returned `r` and left the builder as it was
BuilderReturned(r) ==
    /\ ret' = r
    /\ UNCHANGED <<cstate, history, receipt, builder, written>>

BuilderWriteCbor(cbor_bytes) ==
    BuilderWrote(WriteCall("write_cbor", 0, cbor_bytes),
                 InputBuilder_write_cbor(builder.data, cbor_bytes))

BuilderWriteU32(value) ==
    BuilderWrote(WriteCall("write_u32", value, <<>>),
                 InputBuilder_write_u32(builder.data, value))

BuilderWriteU64(value) ==
    BuilderWrote(WriteCall("write_u64", value, <<>>),
                 InputBuilder_write_u64(builder.data, value))

BuilderWriteBytes32(bytes) ==
    LET res == InputBuilder_write_bytes32(builder.data, bytes) IN
    IF IsOk(res) THEN BuilderWrote(WriteCall("write_bytes32", 0, bytes), res.val)
    ELSE BuilderReturned(Ret("write_bytes32", res.err))

BuilderWriteImageId(image_id) ==
    LET res == InputBuilder_write_image_id(builder.data, image_id) IN
    IF IsOk(res) THEN BuilderWrote(WriteCall("write_image_id", 0, image_id), res.val)
    ELSE BuilderReturned(Ret("write_image_id", res.err))

BuilderWriteRawBytes(bytes) ==
    BuilderWrote(WriteCall("write_raw_bytes", 0, bytes),
                 InputBuilder_write_raw_bytes(builder.data, bytes))

BuilderWriteCborFrame(cbor_bytes) ==
    BuilderWrote(WriteCall("write_cbor_frame", 0, cbor_bytes),
                 InputBuilder_write_cbor_frame(builder.data, cbor_bytes))

BuilderWriteFrame(bytes) ==
    BuilderWrote(WriteCall("write_frame", 0, bytes),
                 InputBuilder_write_frame(builder.data, bytes))

\* InputBuilder::build
BuilderBuild ==
    BuilderReturned([Ret("build", "ok") EXCEPT !.bytes = build(builder)])

\* InputBuilder::size
BuilderSize ==
    BuilderReturned([Ret("size", "ok") EXCEPT !.value = size(builder)])

\* InputBuilder::clear
BuilderClear ==
    BuilderWrote(WriteCall("clear", 0, <<>>), <<>>)

NextInputBuilder ==
    \/ \E b \in BuilderByteArgs : BuilderWriteCbor(b)
    \/ \E v \in BuilderU32Args : BuilderWriteU32(v)
    \/ \E v \in BuilderU64Args : BuilderWriteU64(v)
    \/ \E b \in BuilderBytes32Args : BuilderWriteBytes32(b)
    \/ \E b \in BuilderBytes32Args : BuilderWriteImageId(b)
    \/ \E b \in BuilderByteArgs : BuilderWriteRawBytes(b)
    \/ \E b \in BuilderByteArgs : BuilderWriteCborFrame(b)
    \/ \E b \in BuilderByteArgs : BuilderWriteFrame(b)
    \/ BuilderBuild
    \/ BuilderSize
    \/ BuilderClear

SpecInputBuilder == InitInputBuilder /\ [][NextInputBuilder]_vars

\* ---- a Composer or an InputBuilder ----

\* The two classes share no state, so a program's calls on a Composer and its calls on
\* a standalone InputBuilder do not affect one another: a run exercises one object,
\* the Composer while the builder is as created, the builder while the Composer is.
NextObjects ==
    \/ written = <<>> /\ Next
    \/ Calls = 0 /\ ~proved /\ NextInputBuilder

SpecObjects == Init /\ [][NextObjects]_vars

(***************************************************************************)
(* The properties.                                                         *)
(***************************************************************************)
\* the claim key (image_id, journal_digest) of a receipt
KeyOf(r) == <<r.pre, Sha256(r.journal)>>

\* every claim key of the model
AllKeys == {<<id, Sha256(j)>> : id \in ImageIds, j \in Journals}

\* A[k]: the number of assumptions in the list with claim key k
CountA(k) == Cardinality({i \in 1..Len(assumptions) : KeyOf(assumptions[i]) = k})

\* E[k]: the number of registered expectations with claim key k
CountE(k) ==
    Cardinality({i \in 1..Len(expected_verifications) :
                    <<expected_verifications[i][1],
                      Sha256(expected_verifications[i][2])>> = k})

\* a sequence of receipts with every receipt dropped whose key an earlier one has
RECURSIVE FirstOfEachKey(_)
FirstOfEachKey(rs) ==
    IF rs = <<>> THEN <<>>
    ELSE LET front == SubSeq(rs, 1, Len(rs) - 1)
             last == rs[Len(rs)]
         IN  IF \E i \in 1..Len(front) : KeyOf(front[i]) = KeyOf(last)
             THEN FirstOfEachKey(front)
             ELSE Append(FirstOfEachKey(front), last)

\* C1 (dedup idempotence): after any sequence of assume calls, assumption_count is the
\* number of distinct claim keys among the receipts assume accepted; so assume(r);
\* assume(r) gives 1 and a further receipt with r's key leaves the count as it is.
C1_DedupIdempotence ==
    assumption_count = Cardinality({KeyOf(accepted[i]) : i \in 1..Len(accepted)})

\* C1 witness: r, r again, then another receipt with r's key: the count is 1
C1_Witness ==
    /\ accepted = <<R_A7, R_A7, R_A7g>>
    /\ assumption_count = 1

\* C2 (AssumptionSet invariant): the key set is exactly the set of the keys of the
\* receipts in the list, and each key of the set belongs to exactly one receipt of the
\* list, so the list is as long as the set is large.
C2_AssumptionSetInvariant ==
    /\ assumption_digests = {KeyOf(assumptions[i]) : i \in 1..Len(assumptions)}
    /\ \A k \in assumption_digests : CountA(k) = 1
    /\ Len(assumptions) = Cardinality(assumption_digests)

\* C2 witness: two keys in the set after three accepted receipts
C2_Witness ==
    /\ Cardinality(assumption_digests) = 2
    /\ Len(accepted) = 3

\* C3 (preflight soundness): wherever preflight_check(raise_on_error = true) has
\* returned without an error, every key is expected as often as it is assumed.
C3_PreflightSoundness ==
    (ret.op = "preflight_check" /\ ret.arg = Some(PyBool(TRUE)) /\ IsOk(ret))
        => \A k \in AllKeys : CountE(k) = CountA(k)

\* C3 witness: the raising preflight passes with an assumption kept and one dropped
C3_Witness ==
    /\ ret.op = "preflight_check" /\ ret.arg = Some(PyBool(TRUE)) /\ IsOk(ret)
    /\ Len(assumptions) = 1
    /\ Len(accepted) = 2

\* C4 (composite rejected): assume of a receipt that is not unconditional raises
\* IsComposite and leaves the assumption list, the key set, the input buffer and the
\* expectations as they were.
C4_CompositeRejected ==
    [][\A r \in {r \in Receipts : r.inner \notin {"Succinct", "Groth16", "Fake"}} :
          (ret'.op = "assume" /\ Assume(r))
              => (ret'.err = "IsComposite" /\ UNCHANGED cstate)]_vars

\* C4 witness: a composite receipt was refused by a Composer that holds something
C4_Witness ==
    /\ ret.op = "assume" /\ ret.err = "IsComposite"
    /\ assumptions # <<>> /\ input_builder.data # <<>>

\* C5 (failed exit rejected): assume of an unconditional, non-Fake receipt whose exit
\* status is anything but Halted(0) raises FailedExit, and no receipt with such an exit
\* status is ever in the assumption list.
C5_FailedExitRejected ==
    [][/\ \A r \in {r \in Receipts : /\ r.inner \in {"Succinct", "Groth16"}
                                      /\ r.claim = "value"
                                      /\ r.exit # Halted(0)} :
            (ret'.op = "assume" /\ Assume(r))
                => (ret'.err = "FailedExit" /\ UNCHANGED <<assumptions, assumption_digests>>)
       /\ \A i \in 1..Len(assumptions') : assumptions'[i].exit = Halted(0)]_vars

\* C5 witness: a receipt was refused for its exit status by a Composer that holds one
C5_Witness ==
    /\ ret.op = "assume" /\ ret.err = "FailedExit"
    /\ assumptions # <<>>

\* C6 (fake rejected): a Fake receipt counts as unconditional, and assume of one raises
\* IsFake; no assumption list ever holds a Fake or a Composite receipt.
C6_FakeRejected ==
    [][/\ \A r \in {r \in Receipts : r.inner = "Fake"} :
            (ret'.op = "assume" /\ Assume(r))
                => (is_unconditional(r) /\ ret'.err = "IsFake" /\ UNCHANGED cstate)
       /\ \A i \in 1..Len(assumptions') :
            assumptions'[i].inner \notin {"Fake", "Composite"}]_vars

\* C6 witness: a Fake receipt was refused
C6_Witness ==
    /\ ret.op = "assume" /\ ret.err = "IsFake"
    /\ assumptions # <<>>

\* the 32-byte identity a call of verify was given, if it was given one as bytes or as
\* an Image
IdentityGiven ==
    IF ret.arg = None THEN None
    ELSE IF ret.arg[1].type = "bytes" /\ Len(ret.arg[1].bytes) = 32
    THEN Some(ret.arg[1].bytes)
    ELSE IF ret.arg[1].type = "Image" THEN ret.arg[1].image_id
    ELSE None

\* C7 (verification bind): verify of a receipt against a 32-byte identity succeeds
\* exactly when the identity is the receipt's claimed image id, the receipt's exit is
\* Halted(0) and the seal is valid for the claim.
C7_VerificationBind ==
    (ret.op \in {"verify", "verify_bytes"} /\ IdentityGiven # None)
        => (IsOk(ret) <=> (/\ IdentityGiven[1] = receipt.pre
                           /\ receipt.exit = Halted(0)
                           /\ receipt.seal_ok))

\* C7 witness: a valid, successful receipt was refused for another program's identity
C7_Witness ==
    /\ ret.op = "verify" /\ ret.err = "VerificationError"
    /\ IdentityGiven = Some(ID_B)
    /\ receipt.pre = ID_A /\ receipt.exit = Halted(0) /\ receipt.seal_ok

\* C8 as stated: once prove has returned a Receipt, every further operation fails with
\* ComposerConsumed (so there is no second prove).
C8_ComposerConsumed ==
    [][proved => ret'.err = "ComposerConsumed"]_vars

\* C8 as amended: prove leaves the Composer as it was, whatever it returns, and after
\* it has returned a Receipt no operation fails with ComposerConsumed: the Composer
\* stays open and can prove again.
C8_ProveLeavesComposerOpen ==
    [][/\ ret'.op = "prove" => UNCHANGED cstate
       /\ proved => ret'.err # "ComposerConsumed"]_vars

\* C8 witness: after a prove that returned a Receipt, with assumptions and input in
\* place, a write succeeded
C8_Witness ==
    /\ proved
    /\ ret.op = "write_u32" /\ IsOk(ret)
    /\ assumptions # <<>>

\* C9 (assumption ordering): the assumption list is the accepted receipts in call
\* order, each receipt dropped whose key an earlier one has (the first is kept).
C9_AssumptionOrdering ==
    assumptions = FirstOfEachKey(accepted)

\* C9 witness: A, then A' with A's key, then B: the list is [A, B]
C9_Witness ==
    /\ accepted = <<R_A7, R_A7g, R_A8>>
    /\ assumptions = <<R_A7, R_A8>>

\* C10 (missing assumptions reported): preflight_check reports a missing-assumption
\* issue (the "Missing assumption" or the "Not enough assumptions" message) for every
\* key that is expected more often than it is assumed.
C10_MissingReported ==
    ret.op = "preflight_check"
        => \A k \in AllKeys :
              CountE(k) > CountA(k)
                  => \E i \in ret.issues :
                        /\ i.kind \in {"MissingAssumption", "NotEnoughAssumptions"}
                        /\ i.key = k

\* C10 witness: a key expected twice and assumed once was reported
C10_Witness ==
    /\ ret.op = "preflight_check"
    /\ \E k \in AllKeys : CountE(k) = 2 /\ CountA(k) = 1
    /\ \E i \in ret.issues : i.kind = "NotEnoughAssumptions"

\* C11 (unused assumptions reported): preflight_check reports an UnusedAssumption issue
\* for exactly the keys that an assumption of the list has and no expectation has.
C11_UnusedReported ==
    ret.op = "preflight_check"
        => /\ \A k \in AllKeys :
                (\E i \in ret.issues : i.kind = "UnusedAssumption" /\ i.key = k)
                    <=> (CountA(k) >= 1 /\ CountE(k) = 0)
           /\ \A i \in ret.issues : i.kind = "UnusedAssumption" => i.key \in AllKeys

\* C11 witness: of two assumed keys one is expected; the other is reported unused
C11_Witness ==
    /\ ret.op = "preflight_check"
    /\ \E k \in AllKeys : CountA(k) = 1 /\ CountE(k) = 1
    /\ \E i \in ret.issues : i.kind = "UnusedAssumption"

\* C12 (one issue per mismatching key): the issues of preflight_check are one per key
\* whose expectations and assumptions differ in number and none for any other key; the
\* issue of a key expected and not assumed is a MissingAssumption, that of a key assumed
\* and not expected an UnusedAssumption.
C12_OneIssuePerKey ==
    ret.op = "preflight_check"
        => /\ \A i \in ret.issues : i.key \in AllKeys
           /\ \A k \in AllKeys :
                LET of_k == {i \in ret.issues : i.key = k} IN
                /\ Cardinality(of_k) = IF CountE(k) # CountA(k) THEN 1 ELSE 0
                /\ (CountE(k) >= 1 /\ CountA(k) = 0)
                      => \A i \in of_k : i.kind = "MissingAssumption"
                /\ (CountE(k) = 0 /\ CountA(k) >= 1)
                      => \A i \in of_k : i.kind = "UnusedAssumption"

\* C12 witness: a key expected twice and never assumed has given the only issue
C12_Witness ==
    /\ ret.op = "preflight_check"
    /\ \E k \in AllKeys : CountE(k) = 2 /\ CountA(k) = 0
    /\ Cardinality(ret.issues) = 1

\* C13 (raise or return): preflight_check(raise_on_error = true) fails with
\* PreflightFailed exactly when there are issues; preflight_check(raise_on_error =
\* false) never fails, and what it returns are the issues the raising call carries.
C13_RaiseOrReturn ==
    ret.op = "preflight_check"
        => /\ ret.arg = Some(PyBool(TRUE))
                => (ret.err = "PreflightFailed" <=> ret.issues # {})
           /\ ret.arg = Some(PyBool(FALSE)) => ret.err = "ok"
           /\ ret.err \in {"ok", "PreflightFailed"}
           /\ ret.issues = preflight_check(assumptions, expected_verifications, TRUE).issues

\* C13 witness: the call that does not raise has returned issues
C13_Witness ==
    /\ ret.op = "preflight_check" /\ ret.arg = Some(PyBool(FALSE))
    /\ IsOk(ret) /\ ret.issues # {}

\* some claim key is expected and assumed a different number of times
Mismatch == \E k \in AllKeys : CountE(k) # CountA(k)

\* C14 (preflight first): prove(preflight = true) on a Composer whose expectations and
\* assumptions do not match fails with PreflightFailed, whatever else is wrong with the
\* call, and does not invoke the prover; the prover is invoked only by a prove whose
\* preflight is disabled or finds no issue.
C14_PreflightFirst ==
    ret.op = "prove"
        => /\ (ret.arg = Some(PyBool(TRUE)) /\ Mismatch)
                => (ret.err = "PreflightFailed" /\ ret.issues # {} /\ ~ret.invoked)
           /\ ret.invoked => (ret.arg = Some(PyBool(FALSE)) \/ ~Mismatch)

\* C14 witness: a prove with a kind of the wrong type failed at the preflight check
C14_Witness ==
    /\ ret.op = "prove" /\ ret.arg = Some(PyBool(TRUE)) /\ ret.kind = KindInt
    /\ ret.err = "PreflightFailed"

\* the prover mode of a prove that reached the prover follows from its kind
ModeFollowsKind ==
    (ret.op = "prove" /\ ret.invoked)
        => /\ ret.kind = None => ret.mode = "succinct"
           /\ ret.kind = KindEnum("Succinct") => ret.mode = "succinct"
           /\ ret.kind = KindEnum("Composite") => ret.mode = "default"
           /\ ret.kind = KindEnum("Groth16") => ret.mode = "groth16"
           /\ ret.kind # KindEnum("Fake")

\* a prove with kind Fake returned, its preflight disabled or passed
FakeRequested ==
    /\ ret.op = "prove" /\ ret.kind = KindEnum("Fake")
    /\ (ret.arg = Some(PyBool(FALSE)) \/ ~Mismatch)

\* C15 as stated: the mode follows from the kind, and prove(kind = Fake) whose preflight
\* is disabled or passes fails with FakeNotProvable without invoking the prover.
C15_FakeNotProvable ==
    /\ ModeFollowsKind
    /\ FakeRequested => (ret.err = "FakeNotProvable" /\ ~ret.invoked)

\* C15 as amended: the mode follows from the kind, and prove(kind = Fake) whose
\* preflight is disabled or passes never invokes the prover: it fails with
\* FakeNotProvable, or with the environment's error when the execution environment,
\* which is built before the kind is looked at, cannot be built.
C15_FakeNeverProved ==
    /\ ModeFollowsKind
    /\ FakeRequested => (ret.err \in {"FakeNotProvable", "EnvBuildError"} /\ ~ret.invoked)

\* C15 witness: a prove with kind Fake and no preflight failed with FakeNotProvable
C15_Witness ==
    /\ ret.op = "prove" /\ ret.kind = KindEnum("Fake") /\ ret.arg = Some(PyBool(FALSE))
    /\ ret.err = "FakeNotProvable"
    /\ Mismatch

\* C16 (environment contents): the environment a prove hands to the prover holds the
\* receipts of the assumption list, each once and in the order they were first accepted,
\* and as input the whole input buffer.
C16_EnvironmentContents ==
    (ret.op = "prove" /\ ret.invoked)
        => /\ ret.env_assumptions = assumptions
           /\ ret.env_assumptions = FirstOfEachKey(accepted)
           /\ ret.env_input = input_builder.data
           /\ Len(ret.env_input) = input_size

\* C16 witness: the prover was called with two assumptions and a written input
C16_Witness ==
    /\ ret.op = "prove" /\ ret.invoked
    /\ Len(ret.env_assumptions) = 2
    /\ ret.env_input # <<>>

\* C17 (failed prove changes nothing): a prove call that returns an error leaves the
\* assumption list, the key set, the input buffer and the expectations as they were.
C17_FailedProveFrame ==
    [][(ret'.op = "prove" /\ ~IsOk(ret')) => UNCHANGED cstate]_vars

\* C17 witness: the prover failed for a Composer with an assumption and an input
C17_Witness ==
    /\ ret.op = "prove" /\ ret.err = "ProverError"
    /\ assumptions # <<>> /\ input_builder.data # <<>>

\* assume accepts the receipt: it is Succinct or Groth16, its claim can be read and its
\* exit is Halted(0)
Acceptable(r) ==
    r.inner \in {"Succinct", "Groth16"} /\ r.claim = "value" /\ r.exit = Halted(0)

\* the position of the first receipt of a list that assume rejects, or one past the list
FirstRejected(rs) ==
    IF \A i \in 1..Len(rs) : Acceptable(rs[i]) THEN Len(rs) + 1
    ELSE CHOOSE i \in 1..Len(rs) :
            ~Acceptable(rs[i]) /\ \A j \in 1..(i - 1) : Acceptable(rs[j])

\* C18 (assume_many is assume in order): assume_many(rs) leaves the assumption list as
\* the assume calls for the receipts before the first rejected one leave it, and returns
\* the error assume gives for that one (none if there is none); the receipts before it
\* stay in the list and none after it is added.
C18_AssumeManyInOrder ==
    [][\A rs \in ReceiptLists :
          (ret'.op = "assume_many" /\ AssumeMany(rs))
              => LET n == FirstRejected(rs) IN
                 /\ assumptions' = FirstOfEachKey(assumptions \o SubSeq(rs, 1, n - 1))
                 /\ assumption_digests' =
                        {KeyOf(assumptions'[i]) : i \in 1..Len(assumptions')}
                 /\ ret'.err = IF n > Len(rs) THEN "ok" ELSE assume(Self, rs[n]).err
                 /\ UNCHANGED <<input_builder, expected_verifications>>]_vars

\* C18 witness: of [A8, a receipt that halted with 1, A7] the first is kept, the error is
\* the second's and the third is not in the list
C18_Witness ==
    /\ ret.op = "assume_many" /\ ret.err = "FailedExit"
    /\ assumptions = <<R_A8>>

\* the number of expectations of a list with claim key k
CountOf(ev, k) ==
    Cardinality({i \in 1..Len(ev) : <<ev[i][1], Sha256(ev[i][2])>> = k})

\* C19 (expectations are a multiset): expect_verification with a 32-byte image id adds
\* one occurrence of (image_id, SHA256(journal)) to the expectations and changes no other
\* key's count, whether or not the key is already expected; with an image id of another
\* length it fails with InvalidLength and leaves the expectations as they were.
C19_ExpectationAdded ==
    [][\A e \in ExpectArgs :
          (ret'.op = "expect_verification" /\ ExpectVerification(e[1], e[2]))
              => IF Len(e[1]) = 32
                 THEN /\ ret'.err = "ok"
                      /\ \A k \in AllKeys :
                            CountOf(expected_verifications', k) =
                                CountOf(expected_verifications, k)
                                + (IF k = <<e[1], Sha256(e[2])>> THEN 1 ELSE 0)
                      /\ Len(expected_verifications') = Len(expected_verifications) + 1
                 ELSE /\ ret'.err = "InvalidLength"
                      /\ UNCHANGED expected_verifications]_vars

\* C19 witness: a key has been registered a second time
C19_Witness ==
    /\ ret.op = "expect_verification" /\ IsOk(ret)
    /\ \E k \in AllKeys : CountE(k) = 2

\* byte i (from 1, least significant first) of the n-byte little-endian encoding of a
\* value below 2^31
LE(v, n) == [i \in 1..n |-> IF i > 4 THEN 0 ELSE (v \div (256 ^ (i - 1))) % 256]

\* the bytes a write call is specified to emit: 4 for u32, 8 for u64, the argument for
\* bytes32, image_id, raw and cbor, the 8-byte length and the argument for the frames
Emits(call) ==
    CASE call.op = "write_u32" -> LE(call.int, 4)
      [] call.op = "write_u64" -> LE(call.int, 8)
      [] call.op \in {"write_cbor_frame", "write_frame"} ->
            LE(Len(call.bytes), 8) \o call.bytes
      [] OTHER -> call.bytes

\* the calls of a log after its last clear
RECURSIVE SinceClear(_)
SinceClear(log) ==
    IF log = <<>> THEN <<>>
    ELSE IF log[Len(log)].op = "clear" THEN <<>>
    ELSE Append(SinceClear(SubSeq(log, 1, Len(log) - 1)), log[Len(log)])

\* the bytes the calls of a log are specified to emit, one call after the other
RECURSIVE EmittedBy(_)
EmittedBy(log) ==
    IF log = <<>> THEN <<>> ELSE Emits(Head(log)) \o EmittedBy(Tail(log))

\* C20 (InputBuilder concatenation): what build() returns is the concatenation, in call
\* order, of the bytes that the write calls made on the builder (since it was created or
\* last cleared) are specified to emit; a bytes32 write emits 32 bytes.
C20_BuildIsConcatenation ==
    /\ ret.op = "build" => ret.bytes = EmittedBy(SinceClear(written))
    /\ \A i \in 1..Len(written) :
          written[i].op \in {"write_bytes32", "write_image_id"}
              => Len(Emits(written[i])) = 32

\* C20 witness: build() after write_u32(7); write_u32(258) is LE4(7) ++ LE4(258)
C20_Witness ==
    /\ ret.op = "build"
    /\ written = <<WriteCall("write_u32", 7, <<>>), WriteCall("write_u32", 258, <<>>)>>
    /\ ret.bytes = <<7, 0, 0, 0, 2, 1, 0, 0>>

\* a reader of the guest: the u64 read little-endian from the 8 bytes after position
\* pos of data, -1 when fewer than 8 bytes are left or the value is 2^24 or more
ReadU64LE(data, pos) ==
    IF pos + 8 > Len(data) THEN -1
    ELSE IF \E i \in 4..8 : data[pos + i] # 0 THEN -1
    ELSE data[pos + 1] + 256 * data[pos + 2] + 65536 * data[pos + 3]

\* the reader's next n bytes after position pos of data
ReadBytes(data, pos, n) == SubSeq(data, pos + 1, pos + n)

\* C21 (frame parseability): after write_frame(b) or write_cbor_frame(b), a reader
\* positioned where the frame starts reads a u64 LE equal to len(b), then reads exactly
\* b, and stands at the end of the buffer, where the next write will put its first
\* byte; what was in the buffer before the frame is still in front of it.
C21_FrameParseable ==
    [][\A b \in BuilderByteArgs :
          (/\ ret'.op \in {"write_frame", "write_cbor_frame"}
           /\ BuilderWriteFrame(b) \/ BuilderWriteCborFrame(b))
          => LET start == Len(builder.data)
                 n == ReadU64LE(builder'.data, start)
             IN /\ n = Len(b)
                /\ ReadBytes(builder'.data, start + 8, n) = b
                /\ start + 8 + n = Len(builder'.data)
                /\ SubSeq(builder'.data, 1, start) = builder.data]_vars

\* C21 witness: write_frame(J7) then write_u32(7): the frame is read back as length 4
\* and J7, and the reader then stands on the first byte of the u32
C21_Witness ==
    /\ written = <<WriteCall("write_frame", 0, J7), WriteCall("write_u32", 7, <<>>)>>
    /\ ReadU64LE(builder.data, 0) = 4
    /\ ReadBytes(builder.data, 8, 4) = J7
    /\ ReadBytes(builder.data, 12, 4) = <<7, 0, 0, 0>>
    /\ Len(builder.data) = 16

\* b is a prefix of c
IsPrefix(b, c) == Len(b) <= Len(c) /\ SubSeq(c, 1, Len(b)) = b

\* C22 (32-byte writes): on a Composer and on an InputBuilder, write_bytes32(b) and
\* write_image_id(b) append exactly the bytes of b when len(b) = 32, and fail with
\* InvalidLength leaving the buffer as it was when len(b) # 32.
C22_Bytes32Enforced ==
    [][/\ \A b \in Bytes32Args :
             (/\ ret'.op \in {"write_bytes32", "write_image_id"}
              /\ WriteBytes32(b) \/ WriteImageId(b))
             => IF Len(b) = 32
                THEN ret'.err = "ok" /\ input_builder'.data = input_builder.data \o b
                ELSE ret'.err = "InvalidLength" /\ input_builder' = input_builder
       /\ \A b \in BuilderBytes32Args :
             (/\ ret'.op \in {"write_bytes32", "write_image_id"}
              /\ BuilderWriteBytes32(b) \/ BuilderWriteImageId(b))
             => IF Len(b) = 32
                THEN ret'.err = "ok" /\ builder'.data = builder.data \o b
                ELSE ret'.err = "InvalidLength" /\ builder' = builder]_vars

\* C22 witness: a Composer that took write_bytes32(ID_A) refused write_image_id of a
\* value that is not 32 bytes long, and holds the 32 bytes of ID_A
C22_Witness ==
    /\ ret.op = "write_image_id"
    /\ ret.err = "InvalidLength"
    /\ nwrites = 1
    /\ input_builder.data = ID_A

\* C23 as claimed (only ever extended): the buffers start empty, and across every
\* operation on an InputBuilder or on a Composer the buffer before the operation is a
\* prefix of the buffer after it (so the size never decreases).
C23_OnlyEverExtended ==
    /\ input_builder.data = <<>> /\ builder.data = <<>>
    /\ [][/\ IsPrefix(input_builder.data, input_builder'.data)
           /\ IsPrefix(builder.data, builder'.data)]_vars

\* C23 (extended until cleared): the buffers start empty; every operation on a Composer
\* leaves the buffer before it a prefix of the buffer after it, and so does every
\* operation on an InputBuilder except clear, which empties the buffer.
C23_ExtendedUntilCleared ==
    /\ input_builder.data = <<>> /\ builder.data = <<>>
    /\ [][/\ IsPrefix(input_builder.data, input_builder'.data)
           /\ IF written' # written /\ written'[Len(written')].op = "clear"
              THEN builder'.data = <<>>
              ELSE IsPrefix(builder.data, builder'.data)]_vars

\* C23 witness: an InputBuilder that held the 4 bytes of write_u32(7) is empty after
\* clear()
C23_Witness ==
    /\ written = <<WriteCall("write_u32", 7, <<>>), WriteCall("clear", 0, <<>>)>>
    /\ builder.data = <<>>

\* C24 (integrity apart from exit and identity): for a receipt with a valid seal whose
\* exit is Halted(1), verify fails whatever identity it is given while
\* verify_integrity succeeds; and what verify_integrity answers for a receipt it
\* answers for every receipt that differs from it in exit status and image id only.
C24_IntegrityIgnoresExitAndId ==
    /\ (/\ receipt.seal_ok
        /\ IsOk(exit(receipt))
        /\ exit(receipt).val.kind = "Halted"
        /\ exit(receipt).val.user_code = Some(1))
          => /\ ret.op \in {"verify", "verify_bytes", "verify_hex"} => ~IsOk(ret)
             /\ ret.op = "verify_integrity" => IsOk(ret)
    /\ ret.op = "verify_integrity"
          => \A p \in ImageIds, e \in ExitCodes :
                verify_integrity([receipt EXCEPT !.pre = p, !.exit = e]) = ret.err

\* C24 witness: verify_integrity succeeded on a receipt with a valid seal that exited
\* with Halted(1)
C24_Witness ==
    /\ ret.op = "verify_integrity" /\ ret.err = "ok"
    /\ receipt.seal_ok /\ receipt.claim = "value" /\ receipt.exit = Halted(1)

\* C25 (integrity checks the seal): verify_integrity succeeds only for receipts whose
\* seal is valid for their claim, and fails with IntegrityError for a receipt whose
\* seal does not match its claim or journal.
C25_IntegrityChecksSeal ==
    ret.op \in {"verify_integrity", "verify_integrity_with_context"}
        => /\ IsOk(ret) => receipt.seal_ok
           /\ ~receipt.seal_ok => ret.err = "IntegrityError"

\* C26 (claim identity): every Claim, built by Claim::new or extracted from a receipt
\* by Receipt::claim, has journal_digest = SHA256(journal); the journal of an extracted
\* claim is the receipt's journal, that of a built claim the journal it was given.
C26_ClaimIdentity ==
    (ret.op \in {"claim", "Claim.new"} /\ IsOk(ret))
        => /\ ret.object # None
           /\ ret.object[1].journal_digest = Sha256(ret.object[1].journal)
           /\ ret.op = "claim" => ret.object[1].journal = receipt.journal
           /\ ret.op = "Claim.new" => ret.object[1].journal = ret.arg[1].bytes

\* C26 witness: claim() of a receipt with journal J8 returned a Claim with journal J8
\* and the digest of J8
C26_Witness ==
    /\ ret.op = "claim" /\ IsOk(ret)
    /\ receipt.journal = J8 /\ receipt.exit = SystemSplit
    /\ ret.object = Some([image_id |-> receipt.pre, journal |-> J8,
                           journal_digest |-> Sha256(J8), exit_code |-> U32_MAX])

\* r and s are the same to every getter the round trip is to preserve
SameReceipt(r, s) ==
    /\ r.journal = s.journal
    /\ Receipt_claim(r) = Receipt_claim(s)
    /\ exit(r) = exit(s)
    /\ kind(r) = kind(s)
    /\ Receipt_assumption_count(r) = Receipt_assumption_count(s)

\* C27 (receipt round trip): from_bytes(to_bytes(r)) succeeds and yields a receipt with
\* r's journal, claim, exit status, kind and assumption count; a byte string that is
\* the serialization of no receipt makes from_bytes fail with DeserializeError.
C27_RoundTrip ==
    ret.op = "from_bytes"
        => LET data == ret.arg[1].bytes IN
           /\ data = to_bytes(receipt).val
                 => IsOk(ret) /\ SameReceipt(ret.object[1], receipt)
           /\ (\A r \in AllReceipts : to_bytes(r).val # data)
                 => ret.err = "DeserializeError"

\* C28 (already succinct): compress_to_succinct of a Succinct receipt fails with
\* AlreadySuccinct and does not invoke the prover's compress, whatever assumptions it
\* is given.
C28_AlreadySuccinct ==
    (ret.op = "compress_to_succinct" /\ kind(receipt) = "Succinct")
        => ret.err = "AlreadySuccinct" /\ ~ret.invoked

\* C28 witness: a Succinct receipt was refused though a list of assumptions came with it
C28_Witness ==
    /\ ret.op = "compress_to_succinct" /\ ret.err = "AlreadySuccinct"
    /\ receipt.inner = "Succinct"
    /\ ret.arg = Some(PyReceipts(Some(<<R_A7, R_Composite>>)))

\* C29 (unresolved assumptions): compress_to_succinct of a Composite receipt with
\* assumption_count > 0 and no assumptions argument fails with UnresolvedAssumptions.
C29_UnresolvedAssumptions ==
    (/\ ret.op = "compress_to_succinct"
     /\ kind(receipt) = "Composite" /\ Receipt_assumption_count(receipt) > 0
     /\ ~ret.arg[1].given)
        => ret.err = "UnresolvedAssumptions"

\* C30 (conditional assumption): compress_to_succinct of a Composite receipt with
\* assumption_count > 0 fails with ConditionalAssumption when one of the assumptions
\* it is given is not unconditional, and the prover's compress is not invoked.
C30_ConditionalAssumption ==
    (/\ ret.op = "compress_to_succinct"
     /\ kind(receipt) = "Composite" /\ Receipt_assumption_count(receipt) > 0
     /\ ret.arg[1].given
     /\ \E i \in 1..Len(ret.arg[1].list) : ~is_unconditional(ret.arg[1].list[i]))
        => ret.err = "ConditionalAssumption" /\ ~ret.invoked

\* C30 witness: a Composite receipt with an assumption was refused because the second
\* receipt of the list was a Composite one
C30_Witness ==
    /\ ret.op = "compress_to_succinct" /\ ret.err = "ConditionalAssumption"
    /\ receipt.inner = "Composite" /\ receipt.nassum = 1
    /\ ret.arg = Some(PyReceipts(Some(<<R_A7, R_Composite>>)))

\* C31 (unconditional closure): whenever compress_to_succinct of a valid Composite
\* receipt returns a receipt, that receipt is unconditional and its claim has the image
\* id and the journal digest of the claim of the receipt that was compressed.
C31_UnconditionalClosure ==
    (/\ ret.op = "compress_to_succinct" /\ IsOk(ret)
     /\ kind(receipt) = "Composite" /\ receipt.seal_ok /\ IsOk(Receipt_claim(receipt)))
        => /\ ret.object # None
           /\ is_unconditional(ret.object[1])
           /\ IsOk(Receipt_claim(ret.object[1]))
           /\ Receipt_claim(ret.object[1]).val.image_id
                 = Receipt_claim(receipt).val.image_id
           /\ Receipt_claim(ret.object[1]).val.journal_digest
                 = Receipt_claim(receipt).val.journal_digest

\* C31 witness: a valid Composite receipt with one assumption, given that assumption,
\* was compressed to a Succinct receipt
C31_Witness ==
    /\ ret.op = "compress_to_succinct" /\ IsOk(ret)
    /\ receipt.inner = "Composite" /\ receipt.nassum = 1
    /\ receipt.seal_ok /\ receipt.claim = "value"
    /\ ret.arg = Some(PyReceipts(Some(<<R_A7>>)))
    /\ ret.object # None /\ ret.object[1].inner = "Succinct"

\* C32 (prover errors reported): when the prover fails in prove, prove fails; with
\* ClaimMismatchLikely if the prover's message speaks of an assumption or of verify,
\* with ProverError for every other message; a prover error never yields a Receipt.
C32_ProverErrorsReported ==
    (ret.op = "prove" /\ ret.message # None)
        => /\ ~IsOk(ret)
           /\ ret.err = IF "assumption" \in ret.message[1] \/ "verify" \in ret.message[1]
                        THEN "ClaimMismatchLikely" ELSE "ProverError"

\* C32 witness: with R_A7 assumed and expected, the prover failed on the guest's
\* verify and prove reported the likely claim mismatch
C32_Witness ==
    /\ ret.op = "prove" /\ ret.err = "ClaimMismatchLikely"
    /\ ret.message = Some({"verify"})
    /\ assumptions = <<R_A7>> /\ Len(expected_verifications) = 1

\* the kinds of ReceiptKind that stand for a receipt without open assumptions
UnconditionalKinds == {"Succinct", "Groth16", "Fake"}

\* C33 (kind and is_unconditional agree): for every receipt, also one of a variant the
\* code does not name, is_unconditional is true exactly when kind is Succinct, Groth16
\* or Fake and false exactly when kind is Composite.
C33_KindAgreesWithUnconditional ==
    /\ ret.op = "is_unconditional"
          => /\ ret.object[1] <=> kind(receipt) \in UnconditionalKinds
             /\ ~ret.object[1] <=> kind(receipt) = "Composite"
    /\ ret.op = "kind"
          => /\ ret.object[1] \in UnconditionalKinds <=> is_unconditional(receipt)
             /\ ret.object[1] = "Composite" <=> ~is_unconditional(receipt)

\* C33 witness: a receipt of a variant the code does not name is not unconditional,
\* and its kind is Composite
C33_Witness ==
    /\ ret.op = "is_unconditional" /\ ret.object = Some(FALSE)
    /\ receipt.inner = "Future" /\ kind(receipt) = "Composite"

\* C34 (ExitStatus.ok): exit.ok is true exactly when the receipt's exit is Halted with
\* user code 0; it is false for Halted(n) with n # 0, for Paused with any code, 0
\* included, for SystemSplit and for SessionLimit.
C34_OkIsHaltedZero ==
    /\ (ret.op = "exit.ok" /\ IsOk(ret))
          => (ret.object[1] <=> receipt.exit = Halted(0))
    /\ (ret.op = "exit" /\ IsOk(ret))
          => /\ ret.object[1].kind = receipt.exit.tag
             /\ ret.object[1].user_code = receipt.exit.code

\* C34 witness: exit.ok is false for a receipt that exited with Paused(0)
C34_Witness ==
    /\ ret.op = "exit.ok" /\ ret.object = Some(FALSE)
    /\ receipt.exit = Paused(0)

\* the spellings of a 64-character hex string h: as it is, upper-cased, and each of
\* the two behind "0x" and behind "0X"
Spellings(h) ==
    {h, to_uppercase(h)}
    \cup {<<"0", "x">> \o g : g \in {h, to_uppercase(h)}}
    \cup {<<"0", "X">> \o g : g \in {h, to_uppercase(h)}}

\* C35 (hex robustness): for a 64-character hex string h, verify_hex (and verify of a
\* string) has one outcome for h, for the upper-cased h and for either behind "0x" or
\* "0X", and all of them decode to the same 32 bytes.
C35_HexRobustness ==
    (/\ ret.op \in {"verify_hex", "verify"}
     /\ ret.arg[1].type = "str"
     /\ Len(ret.arg[1].str) = 64
     /\ \A i \in 1..64 : ret.arg[1].str[i] \in HexChars)
        => \A g \in Spellings(ret.arg[1].str) :
              /\ verify_hex(receipt, g) = ret.err
              /\ verify(receipt, PyStr(g)) = ret.err
              /\ ret.err \in {"ok", "VerificationError"}

\* C35 witness: a valid receipt of ID_A verified against the lower-case hex of ID_A,
\* which "0X" and the upper-cased string spell as well
C35_Witness ==
    /\ ret.op = "verify_hex" /\ ret.err = "ok"
    /\ ret.arg = Some(PyStr(hex_encode(ID_A)))
    /\ receipt.pre = ID_A
    /\ verify_hex(receipt, <<"0", "X">> \o to_uppercase(hex_encode(ID_A))) = "ok"

\* the write the step made on the Composer is one of the write_* calls
ComposerWrites ==
    {"write_cbor", "write_cbor_frame", "write_u32", "write_u64", "write_raw_bytes",
     "write_frame", "write_bytes32", "write_image_id"}

\* C36 (the Composer's writes refine the InputBuilder's): the Composer's buffer starts
\* as that of a new InputBuilder, and every write_* call on the Composer leaves its
\* buffer as the same call leaves the buffer of an InputBuilder that held the same
\* bytes before, and is accepted or rejected as the InputBuilder accepts or rejects it;
\* so after any sequence of calls the Composer's buffer is build() of an InputBuilder
\* given the same calls.
C36_WritesRefineInputBuilder ==
    /\ build(input_builder) = build(builder)
    /\ [][ret'.op \in ComposerWrites =>
            LET d == input_builder.data
                e == build(input_builder')
            IN
            /\ \A b \in ByteArgs :
                  /\ WriteCbor(b) => IsOk(ret') /\ e = InputBuilder_write_cbor(d, b)
                  /\ WriteCborFrame(b)
                        => IsOk(ret') /\ e = InputBuilder_write_cbor_frame(d, b)
                  /\ WriteRawBytes(b)
                        => IsOk(ret') /\ e = InputBuilder_write_raw_bytes(d, b)
                  /\ WriteFrame(b) => IsOk(ret') /\ e = InputBuilder_write_frame(d, b)
            /\ \A v \in U32Args :
                  WriteU32(v) => IsOk(ret') /\ e = InputBuilder_write_u32(d, v)
            /\ \A v \in U64Args :
                  WriteU64(v) => IsOk(ret') /\ e = InputBuilder_write_u64(d, v)
            /\ \A b \in Bytes32Args :
                  /\ WriteBytes32(b)
                        => LET res == InputBuilder_write_bytes32(d, b) IN
                           /\ ret'.err = res.err
                           /\ e = IF IsOk(res) THEN res.val ELSE d
                  /\ WriteImageId(b)
                        => LET res == InputBuilder_write_image_id(d, b) IN
                           /\ ret'.err = res.err
                           /\ e = IF IsOk(res) THEN res.val ELSE d]_vars

\* C36 witness: after write_u64(7) and write_frame(J7) the Composer holds what an
\* InputBuilder holds after the two calls, and has refused a 31-byte image id
C36_Witness ==
    /\ ret.op = "write_image_id" /\ ret.err = "InvalidLength"
    /\ nwrites = 2
    /\ input_builder.data
          = InputBuilder_write_frame(InputBuilder_write_u64(<<>>, 7), J7)

\* C37 (duplicate expectations): the list holds at most one assumption per claim key,
\* so in a state where expect_verification has registered some key twice or more,
\* preflight_check reports an issue for that key (and raises when asked to), and
\* prove with the preflight check fails with it and does not reach the prover.
C37_DuplicateExpectations ==
    /\ \A k \in AllKeys : CountA(k) <= 1
    /\ \A k \in AllKeys :
          CountE(k) >= 2
              => /\ ret.op = "preflight_check"
                       => /\ \E i \in ret.issues :
                                /\ i.key = k
                                /\ i.kind \in {"MissingAssumption", "NotEnoughAssumptions"}
                          /\ ret.arg = Some(PyBool(TRUE)) => ret.err = "PreflightFailed"
                 /\ (ret.op = "prove" /\ ret.arg = Some(PyBool(TRUE)))
                       => ret.err = "PreflightFailed" /\ ~ret.invoked

\* C37 witness: with one receipt assumed and its key expected twice, prove with the
\* preflight check failed before the prover was called
C37_Witness ==
    /\ ret.op = "prove" /\ ret.arg = Some(PyBool(TRUE))
    /\ ret.err = "PreflightFailed" /\ ~ret.invoked
    /\ \E k \in AllKeys : CountE(k) = 2 /\ CountA(k) = 1

\* C38 (failing assume changes nothing): an assume that fails, for whichever reason
\* (composite, fake, failed exit, pruned or unreadable claim), leaves the assumption
\* list, the key set, the input buffer and the expectations as they were.
C38_FailedAssumeFrame ==
    [][(ret'.op = "assume" /\ ~IsOk(ret'))
          => /\ UNCHANGED <<assumptions, assumption_digests, input_builder,
                            expected_verifications, image>>
             /\ ret'.err \in {"IsComposite", "IsFake", "FailedExit", "ClaimPruned",
                               "ClaimDecodeError"}]_vars

\* C38 witness: a Composer with an assumption, an expectation and input refused a
\* receipt whose claim is pruned, and holds what it held
C38_Witness ==
    /\ ret.op = "assume" /\ ret.err = "ClaimPruned"
    /\ assumptions = <<R_A7>> /\ assumption_digests = {claim_key(R_A7)}
    /\ Len(expected_verifications) = 1 /\ nwrites = 1

\* C40 (each operation changes its own part): assume and assume_many change the
\* assumption list and the key set only, the write_* operations the input buffer only,
\* expect_verification the expectations only; preflight_check, input_size and
\* assumption_count change nothing; no operation changes the image, or a receipt: the
\* receipts in the list after a call are those before it and receipts passed to it.
C40_OwnPartOnly ==
    [][/\ ret'.op \in {"assume", "assume_many"}
             => UNCHANGED <<input_builder, expected_verifications>>
       /\ ret'.op \in ComposerWrites
             => UNCHANGED <<assumptions, assumption_digests, expected_verifications>>
       /\ ret'.op = "expect_verification"
             => UNCHANGED <<assumptions, assumption_digests, input_builder>>
       /\ ret'.op \in {"preflight_check", "input_size", "assumption_count"}
             => UNCHANGED cstate
       /\ UNCHANGED <<image, receipt>>
       /\ \A i \in 1..Len(assumptions') :
             \/ i <= Len(assumptions) /\ assumptions'[i] = assumptions[i]
             \/ assumptions'[i] \in Receipts]_vars

\* C40 witness: an expectation was added to a Composer that holds an assumption and
\* input, which are as they were
C40_Witness ==
    /\ ret.op = "expect_verification" /\ IsOk(ret)
    /\ Len(expected_verifications) = 1
    /\ assumptions = <<R_A7>> /\ nwrites = 1 /\ input_builder.data # <<>>

\* C39 (the success predicates agree): for every receipt whose claim can be read,
\* claim().is_success is exit().ok, whatever the exit status: Halted(n), Paused(n),
\* SystemSplit or SessionLimit.
C39_SuccessPredicatesAgree ==
    (ret.op = "claim.is_success" /\ IsOk(ret))
        => /\ IsOk(exit(receipt))
           /\ ret.object[1] = ExitStatus_ok(exit(receipt).val)

====
